---------------------------- MODULE Spec2Model ----------------------------
(***************************************************************************)
(* Model of the AURA multi-agent orchestration engine                      *)
(* (src/services/aura/orchestrator.py, src/services/aura/agents/*.py) and  *)
(* of the real-time connection manager (src/api/aura_websocket.py).        *)
(*                                                                         *)
(* Coroutines run on one asyncio event loop (src/main.py:579 starts a      *)
(* single uvicorn process): a coroutine keeps the loop until it awaits     *)
(* something that really suspends.  `running` is the coroutine that holds  *)
(* the loop.  Confidences are in hundredths (0.95 is 95).                  *)
(***************************************************************************)
EXTENDS Integers, Sequences, FiniteSets, TLC

VARIABLES
    conversation_history,   \* AuraOrchestrator.conversation_history
    total_iterations,       \* AuraOrchestrator.total_iterations
    status,                 \* agent type -> BaseAgent.status
    running,                \* the request coroutine holding the event loop, or None
    pc,                     \* position of each request coroutine in aura_chat/process_request
    request,                \* the AuraRequest of each request coroutine
    workflow,               \* local `workflow` of process_request
    agent_responses,        \* local `agent_responses` of process_request
    iteration,              \* local `iteration` of the for loop
    idx,                    \* position in `for agent_type in workflow` (1-based)
    passes,                 \* history: passes of the loop body this call has begun
    synthCalls,             \* history: calls of the Synthesizer's process by this call
    metrics,                \* locals `quantum_metrics`, `quantum_backend` of process_request
    invoked,                \* history: agents whose process the loop called in this pass
    context,                \* the `context` given to the process call last made
    aura_response,          \* the AuraResponse process_request returned
    short_term,             \* each agent's memory.short_term
    appended,               \* history: entries put into short_term since the last reset
    long_term,              \* each agent's memory.long_term (its keys)
    working_context,        \* each agent's memory.working_context
    traces,                 \* each agent's traces (the action of each, in order)
    response_trace,         \* the trace of the AgentResponse each agent's process gave last
    w2_optimization,        \* each agent's vector.w2_optimization, in hundredths
    weight,                 \* each agent's vector.weight, in hundredths
    gamma_resistance,       \* each agent's vector.gamma_resistance, in hundredths
    active_connections,     \* ConnectionManager.active_connections: session -> set
    hpc,                    \* position of each connection's websocket_endpoint coroutine
    out,                    \* the frame a caller is sending (awaiting send_json)
    bcaller,                \* the caller inside broadcast_to_session, or None
    bstate,                 \* its broadcast: idle, sending, done, raised
    connections,            \* its local list `connections` (the snapshot)
    bdelivered,             \* history: connections its send_json returned for
    bfailed,                \* history: connections its send_json raised for
    bremoved,               \* history: connections that left the session's set in its steps
    auth,                   \* history: what each handler's authentication got back (lines 181-199)
    orchestrators,          \* keys of aura_routes._orchestrators
    aura_sessions,          \* the aura_sessions table: id -> row
    stalled,                \* connections whose peer stopped reading: a send never completes
    ignored,                \* history: the connection whose inbound message, the last any
                            \* handler read, matched no branch of the dispatch (or None)
    lattice,                \* the AgentLattice the last direct call of get_lattice_state gave
    rejected                \* the HTTP error of the session check of the last endpoint call

memVars == <<short_term, appended, long_term, working_context>>

agentVars == <<memVars, traces, response_trace, w2_optimization, weight, gamma_resistance>>

orchVars == <<conversation_history, total_iterations, status, running, pc, request,
              workflow, agent_responses, iteration, idx, passes, synthCalls, invoked, context, aura_response, metrics,
              agentVars>>

bVars == <<bcaller, bstate, connections, bdelivered, bfailed, bremoved>>

wsVars == <<active_connections, hpc, out, bVars, stalled, auth, ignored>>

regVars == <<orchestrators, aura_sessions, lattice, rejected>>

vars == <<orchVars, wsVars, regVars>>

-----------------------------------------------------------------------------
(* Bounds of the model *)

\* largest max_iterations a modelled request asks for (the code allows 1..20)
MaxIter == 2

-----------------------------------------------------------------------------
(* Data model: src/services/aura/models.py *)

None == "none"

Tasks == {"t1", "t2"}

ARCHITECT == "architect"
ENGINEER == "engineer"
REVIEWER == "reviewer"
DEBUGGER == "debugger"
RESEARCH == "research"
SYNTHESIZER == "synthesizer"

AgentType == {ARCHITECT, ENGINEER, REVIEWER, DEBUGGER, RESEARCH, SYNTHESIZER}

AgentStatus == {"idle", "active", "working", "completed", "error"}

MessageRole == {"user", "assistant", "system", "agent"}

\* AuraRequest.max_iterations: Field(5, ge=1, le=20)
MinIterations == 1

\* The keyword categories of _determine_workflow a prompt can contain.
Categories == {"debugging", "review", "research"}

\* A prompt is modelled by the set of keyword categories its text contains.
Prompts == SUBSET Categories

EnabledChoices ==
    { AgentType,
      AgentType \ {SYNTHESIZER},
      {ENGINEER, SYNTHESIZER},
      {SYNTHESIZER} }

AuraRequest ==
    [ prompt : Prompts,
      agents_enabled : EnabledChoices,
      max_iterations : MinIterations..MaxIter,
      quantum_enhanced : BOOLEAN ]

NoRequest == [ prompt |-> {}, agents_enabled |-> {}, max_iterations |-> 0,
               quantum_enhanced |-> FALSE ]

\* Message(role, content, agent_type); `src` names the process_request call
\* that appended the message.
Message(role, content, agent_type, t) ==
    [ role |-> role, content |-> content, agent_type |-> agent_type, src |-> t ]

\* AgentResponse(agent_type, response, confidence)
AgentResponse(agent_type, response, confidence) ==
    [ agent_type |-> agent_type, response |-> response, confidence |-> confidence ]

\* No context has been prepared; no response has been returned.
NoContext == [ original_prompt |-> None ]

NoResponse == [ final_response |-> None ]

Last(s) == s[Len(s)]

Min(a, b) == IF a <= b THEN a ELSE b

-----------------------------------------------------------------------------
(* Agents: src/services/aura/agents/*.py *)

\* What the completion service returned, as far as the agents' score
\* derivations read it: "strong" is a text with the markers an agent scores
\* highest, "weak" a text without them.
Texts == {"weak", "strong"}

\* What the completion service returned to the Synthesizer, whose score
\* does not read the text.
SynthesisTexts == {"synthesis"}

\* engineer_agent.py:125-126: min(0.95, 0.7 + code_blocks / 10)
EngineerScore(code_blocks) == Min(95, 70 + 10 * code_blocks)

\* synthesizer_agent.py:134-137: 0.9 without outputs, else min(0.95, 0.7 + n * 0.05)
SynthesisQuality(n) == IF n > 0 THEN Min(95, 70 + 5 * n) ELSE 90

\* The confidence each variant derives from the completion text.
Confidence(agent_type, text) ==
    CASE agent_type = ARCHITECT ->
           \* estimated_complexity "low" -> 0.9, absent or "medium" -> 0.7
           IF text = "strong" THEN 90 ELSE 70
      [] agent_type = ENGINEER ->
           \* four ``` fences against none
           IF text = "strong" THEN EngineerScore(4) ELSE EngineerScore(0)
      [] agent_type = REVIEWER ->
           \* "approve" -> 0.9, neither marker -> 0.5
           IF text = "strong" THEN 90 ELSE 50
      [] agent_type = DEBUGGER ->
           \* "confidence: 0.95" in the text -> min(1.0, 0.95), else the default 0.8
           IF text = "strong" THEN Min(100, 95) ELSE 80
      [] agent_type = RESEARCH ->
           \* default 0.85, a text under 200 characters -> 0.6
           IF text = "strong" THEN 85 ELSE 60

-----------------------------------------------------------------------------
(* Orchestrator: src/services/aura/orchestrator.py *)

\* The classification with the review test ahead of the debugging test.
DetermineWorkflow_reviewFirst(prompt) ==
    IF "review" \in prompt THEN <<REVIEWER, ENGINEER>>
    ELSE IF "debugging" \in prompt THEN <<DEBUGGER, ENGINEER, REVIEWER>>
    ELSE IF "research" \in prompt THEN <<RESEARCH, ARCHITECT>>
    ELSE <<ARCHITECT, ENGINEER, REVIEWER>>

\* Mutant of DetermineWorkflow: the default workflow ends with the Synthesizer.
DetermineWorkflow_withSynthesizer(prompt) ==
    IF "debugging" \in prompt THEN <<DEBUGGER, ENGINEER, REVIEWER>>
    ELSE IF "review" \in prompt THEN <<REVIEWER, ENGINEER>>
    ELSE IF "research" \in prompt THEN <<RESEARCH, ARCHITECT>>
    ELSE <<ARCHITECT, ENGINEER, SYNTHESIZER>>

\* _determine_workflow: first matching keyword category wins
DetermineWorkflow(prompt) ==
    IF "debugging" \in prompt THEN <<DEBUGGER, ENGINEER, REVIEWER>>
    ELSE IF "review" \in prompt THEN <<REVIEWER, ENGINEER>>
    ELSE IF "research" \in prompt THEN <<RESEARCH, ARCHITECT>>
    ELSE <<ARCHITECT, ENGINEER, REVIEWER>>

\* Mutant of InRange: the range is one short.
InRange_oneShort(i, max_iterations) == i < max_iterations - 1

\* `for iteration in range(request.max_iterations)`: is there a pass number i?
InRange(i, max_iterations) == i < max_iterations

\* A policy that stops the loop while no response has been collected.
ShouldContinue_stopsWhenEmpty(responses, i, max_iterations) ==
    IF i >= max_iterations - 1 THEN FALSE
    ELSE IF responses = <<>> THEN FALSE
    ELSE IF Last(responses).confidence >= 90 THEN FALSE
    ELSE TRUE

\* Mutant of ShouldContinue: one pass only.
ShouldContinue_onePass(responses, i, max_iterations) == FALSE

\* Mutant of ShouldContinue: only a confidence above 0.95 stops the loop.
ShouldContinue_strictThreshold(responses, i, max_iterations) ==
    IF i >= max_iterations - 1 THEN FALSE
    ELSE IF responses = <<>> THEN TRUE
    ELSE IF Last(responses).confidence > 95 THEN FALSE
    ELSE TRUE

\* _should_continue(agent_responses, iteration, max_iterations)
ShouldContinue(responses, i, max_iterations) ==
    IF i >= max_iterations - 1 THEN FALSE
    ELSE IF responses = <<>> THEN TRUE
    ELSE IF Last(responses).confidence >= 90 THEN FALSE
    ELSE TRUE

\* Mutant of CompletionCallSuspends: the completion call is awaited on an
\* asynchronous client, so the event loop runs other coroutines meanwhile.
CompletionCallSuspends_asyncClient == TRUE

\* base_agent.py:125: _call_claude calls the synchronous client
\* (anthropic.Anthropic, line 72) without awaiting anything, so
\* `await agent.process(...)` never hands the event loop to another coroutine.
CompletionCallSuspends == FALSE

\* Who holds the event loop after coroutine t reached an await of agent.process.
HolderAtAwait(t) == IF CompletionCallSuspends THEN None ELSE t

\* The event loop runs coroutine t: it holds the loop, or nobody does.
CanRun(t) == running \in {None, t}

\* The agent the loop of call t is at.
CurrentAgent(t) == workflow[t][idx[t]]

LoopPcs == {"pass", "agents", "awaiting"}

\* orchestrator.py:95-96: quantum_metrics = None, quantum_backend = None.
NoMetrics == [consciousness_metrics |-> None, quantum_backend_used |-> None]

\* `[-10:]` in update_memory (base_agent.py:177).
ShortTermLimit == 10

\* Initial vector of an agent (base_agent.py:52-54), in hundredths.
InitialWeight == 100

InitialGammaResistance == 80

Max(a, b) == IF a >= b THEN a ELSE b

\* s[-n:]
LastN(s, n) == IF Len(s) <= n THEN s ELSE SubSeq(s, Len(s) - n + 1, Len(s))

\* The slice taken from the front: s[:n].
UpdateShortTerm_keepFirst(mem, items) ==
    IF Len(mem \o items) <= ShortTermLimit THEN mem \o items
    ELSE SubSeq(mem \o items, 1, ShortTermLimit)

\* base_agent.py:175-177: (self.memory.short_term + short_term)[-10:]
UpdateShortTerm(mem, items) == LastN(mem \o items, ShortTermLimit)

\* The score stored without the lower bound: min(score, 1.0).
Clamp_noFloor(score) == Min(score, 100)

\* base_agent.py:188: max(0.0, min(score, 1.0)), in hundredths.
Clamp(score) == Max(0, Min(score, 100))

\* The n entries agent a is given next; an entry is named by its number
\* since the last reset.
NewEntries(a, n) == [i \in 1..n |-> appended[a] + i]

\* The actions of the traces of process and _call_claude: the start trace
\* (start_review and alike), the trace of the completed call (complete_review
\* and alike), _call_claude's error trace and the error trace of process
\* (review_error and alike).
TraceActions == {"start", "complete", "call_claude", "error"}

\* No process call of the agent has returned a response.
NoTrace == [action |-> None, index |-> 0]

\* _add_trace (base_agent.py:146-165) on the list tr.
AddTrace(tr, action) == Append(tr, action)

\* self.traces[-1] if self.traces else None, of a response: the trace is
\* named by its action and its place in the agent's list.
LastTrace(tr) ==
    IF tr = <<>> THEN NoTrace ELSE [action |-> tr[Len(tr)], index |-> Len(tr)]

InitAgents ==
    /\ short_term = [a \in AgentType |-> <<>>]
    /\ appended = [a \in AgentType |-> 0]
    /\ long_term = [a \in AgentType |-> {}]
    /\ working_context = [a \in AgentType |-> None]
    /\ traces = [a \in AgentType |-> <<>>]
    /\ response_trace = [a \in AgentType |-> NoTrace]
    /\ w2_optimization = [a \in AgentType |-> 0]
    /\ weight = [a \in AgentType |-> InitialWeight]
    /\ gamma_resistance = [a \in AgentType |-> InitialGammaResistance]

\* update_memory (base_agent.py:167-184) with a list of n entries, a
\* long_term key or None, and a working_context or None.
UpdateMemory(a, n, key, ctx) ==
    /\ short_term' = [short_term EXCEPT ![a] = UpdateShortTerm(@, NewEntries(a, n))]
    /\ appended' = [appended EXCEPT ![a] = @ + n]
    /\ long_term' = [long_term EXCEPT ![a] = IF key = None THEN @ ELSE @ \cup {key}]
    /\ working_context' = [working_context EXCEPT ![a] = IF ctx = None THEN @ ELSE ctx]

\* update_w2_optimization (base_agent.py:186-189)
UpdateW2Optimization(a, score) ==
    w2_optimization' = [w2_optimization EXCEPT ![a] = Clamp(score)]

\* A head of process that writes the task into every agent's working context.
ProcessBegins_sharedContext(a) ==
    /\ status' = [status EXCEPT ![a] = "working"]
    /\ short_term' = [short_term EXCEPT ![a] = UpdateShortTerm(@, NewEntries(a, 1))]
    /\ appended' = [appended EXCEPT ![a] = @ + 1]
    /\ working_context' = [b \in AgentType |-> "task"]
    /\ traces' = [traces EXCEPT ![a] = AddTrace(@, "start")]
    /\ UNCHANGED <<long_term, response_trace, w2_optimization, weight, gamma_resistance>>

\* The head of process up to the completion call (engineer_agent.py:75-121
\* and alike): Working, one entry and the task into memory, the start trace.
ProcessBegins(a) ==
    /\ status' = [status EXCEPT ![a] = "working"]
    /\ UpdateMemory(a, 1, None, "task")
    /\ traces' = [traces EXCEPT ![a] = AddTrace(@, "start")]
    /\ UNCHANGED <<response_trace, w2_optimization, weight, gamma_resistance>>

\* The rest of process ending with the status Active.
ProcessCompletes_active(a, score) ==
    /\ UpdateW2Optimization(a, score)
    /\ traces' = [traces EXCEPT ![a] = AddTrace(@, "complete")]
    /\ response_trace' = [response_trace EXCEPT ![a] = LastTrace(traces'[a])]
    /\ status' = [status EXCEPT ![a] = "active"]
    /\ UNCHANGED <<memVars, weight, gamma_resistance>>

\* The rest of process attaching the start trace to the response.
ProcessCompletes_startTrace(a, score) ==
    /\ UpdateW2Optimization(a, score)
    /\ traces' = [traces EXCEPT ![a] = AddTrace(@, "complete")]
    /\ response_trace' = [response_trace EXCEPT ![a] = LastTrace(traces[a])]
    /\ status' = [status EXCEPT ![a] = "completed"]
    /\ UNCHANGED <<memVars, weight, gamma_resistance>>

\* The rest of process after the completion call returned (engineer_agent.py:
\* 123-150 and alike): the score is stored, the trace added, Completed.
ProcessCompletes(a, score) ==
    /\ UpdateW2Optimization(a, score)
    /\ traces' = [traces EXCEPT ![a] = AddTrace(@, "complete")]
    /\ response_trace' = [response_trace EXCEPT ![a] = LastTrace(traces'[a])]
    /\ status' = [status EXCEPT ![a] = "completed"]
    /\ UNCHANGED <<memVars, weight, gamma_resistance>>

\* A failing process without the except clause's status.
ProcessErrs_staysWorking(a) ==
    /\ traces' = [traces EXCEPT ![a] = AddTrace(AddTrace(@, "call_claude"), "error")]
    /\ UNCHANGED <<status, memVars, response_trace, w2_optimization, weight, gamma_resistance>>

\* A failing process that writes its error over the start trace.
ProcessErrs_overStart(a) ==
    /\ status' = [status EXCEPT ![a] = "error"]
    /\ traces' = [traces EXCEPT ![a] = AddTrace([@ EXCEPT ![Len(@)] = "call_claude"], "error")]
    /\ UNCHANGED <<memVars, response_trace, w2_optimization, weight, gamma_resistance>>

\* The completion call raised (base_agent.py:138-144 adds a trace) and the
\* except clause of process (engineer_agent.py:152-155 and alike) sets Error,
\* adds a trace and raises again.
ProcessErrs(a) ==
    /\ status' = [status EXCEPT ![a] = "error"]
    /\ traces' = [traces EXCEPT ![a] = AddTrace(AddTrace(@, "call_claude"), "error")]
    /\ UNCHANGED <<memVars, response_trace, w2_optimization, weight, gamma_resistance>>

\* Where process can raise after its completion call returned: "score" is
\* the derivation of the score (the Architect's table lookup with an
\* unhashable estimated_complexity, architect_agent.py:126-127; the Debugger's
\* float() of a matched "confidence: 0.9.", debugger_agent.py:120-125),
\* "metrics" the Architect's len() of a plan's "steps" that has no length
\* (architect_agent.py:144-147), after the score is stored and the trace of
\* the completed call added.
RaisePoints(a) ==
    CASE a = ARCHITECT -> {"score", "metrics"}
      [] a = DEBUGGER -> {"score"}
      [] OTHER -> {}

\* The completion call returned and process raised at `point`: the except
\* clause sets Error, adds its trace and raises again.
ProcessErrsAfterCall(a, point) ==
    /\ point \in RaisePoints(a)
    /\ status' = [status EXCEPT ![a] = "error"]
    /\ IF point = "metrics"
       THEN /\ UpdateW2Optimization(a, Confidence(a, "weak"))
            /\ traces' = [traces EXCEPT ![a] = AddTrace(AddTrace(@, "complete"), "error")]
       ELSE /\ traces' = [traces EXCEPT ![a] = AddTrace(@, "error")]
            /\ UNCHANGED w2_optimization
    /\ UNCHANGED <<memVars, response_trace, weight, gamma_resistance>>

\* reset that leaves the optimization score as it is.
ResetAgents_keepsScore(A) ==
    /\ status' = [a \in AgentType |-> IF a \in A THEN "idle" ELSE status[a]]
    /\ short_term' = [a \in AgentType |-> IF a \in A THEN <<>> ELSE short_term[a]]
    /\ appended' = [a \in AgentType |-> IF a \in A THEN 0 ELSE appended[a]]
    /\ long_term' = [a \in AgentType |-> IF a \in A THEN {} ELSE long_term[a]]
    /\ working_context' =
         [a \in AgentType |-> IF a \in A THEN None ELSE working_context[a]]
    /\ traces' = [a \in AgentType |-> IF a \in A THEN <<>> ELSE traces[a]]
    /\ UNCHANGED <<response_trace, w2_optimization, weight, gamma_resistance>>

\* reset (base_agent.py:204-210) of the agents in A.
ResetAgents(A) ==
    /\ status' = [a \in AgentType |-> IF a \in A THEN "idle" ELSE status[a]]
    /\ short_term' = [a \in AgentType |-> IF a \in A THEN <<>> ELSE short_term[a]]
    /\ appended' = [a \in AgentType |-> IF a \in A THEN 0 ELSE appended[a]]
    /\ long_term' = [a \in AgentType |-> IF a \in A THEN {} ELSE long_term[a]]
    /\ working_context' =
         [a \in AgentType |-> IF a \in A THEN None ELSE working_context[a]]
    /\ traces' = [a \in AgentType |-> IF a \in A THEN <<>> ELSE traces[a]]
    /\ w2_optimization' = [a \in AgentType |-> IF a \in A THEN 0 ELSE w2_optimization[a]]
    /\ UNCHANGED <<response_trace, weight, gamma_resistance>>

\* self.session_id of the orchestrator (orchestrator.py:49).
session_id == "s1"

\* The context with the first three responses in place of the last three.
PrepareContext_firstThree(req, responses) ==
    [ original_prompt |-> req.prompt,
      session_id |-> session_id,
      previous_responses |-> SubSeq(responses, 1, Min(3, Len(responses))) ]

\* _prepare_context (orchestrator.py:217-233): the prompt, the session id and
\* agent_type, response and confidence of agent_responses[-3:].
PrepareContext(req, responses) ==
    [ original_prompt |-> req.prompt,
      session_id |-> session_id,
      previous_responses |-> LastN(responses, 3) ]

\* synthesis_context (orchestrator.py:140-151): every collected response and
\* the prompt.
SynthesisContext(req, responses) ==
    [ agent_responses |-> responses, original_prompt |-> req.prompt ]

InitOrch(reqs) ==
    /\ InitAgents
    /\ conversation_history = <<>>
    /\ total_iterations = 0
    /\ status = [a \in AgentType |-> "idle"]
    /\ running = None
    /\ pc = [t \in Tasks |-> "idle"]
    /\ request \in reqs
    /\ workflow = [t \in Tasks |-> <<>>]
    /\ agent_responses = [t \in Tasks |-> <<>>]
    /\ iteration = [t \in Tasks |-> 0]
    /\ idx = [t \in Tasks |-> 0]
    /\ passes = [t \in Tasks |-> 0]
    /\ synthCalls = [t \in Tasks |-> 0]
    /\ metrics = [t \in Tasks |-> NoMetrics]
    /\ invoked = [t \in Tasks |-> <<>>]
    /\ context = [t \in Tasks |-> NoContext]
    /\ aura_response = [t \in Tasks |-> NoResponse]

\* process_request that starts its count of passes anew.
StartRequest_resetsCounter(t) ==
    /\ pc[t] = "idle"
    /\ request[t] # NoRequest
    /\ running = None
    /\ running' = t
    /\ conversation_history' =
         Append(conversation_history, Message("user", request[t].prompt, None, t))
    /\ workflow' = [workflow EXCEPT ![t] = DetermineWorkflow(request[t].prompt)]
    /\ agent_responses' = [agent_responses EXCEPT ![t] = <<>>]
    /\ iteration' = [iteration EXCEPT ![t] = 0]
    /\ pc' = [pc EXCEPT ![t] = "pass"]
    /\ total_iterations' = 0
    /\ UNCHANGED <<status, request, idx, passes, synthCalls, invoked, context, aura_response, metrics>>
    /\ UNCHANGED agentVars
    /\ UNCHANGED wsVars
    /\ UNCHANGED regVars

\* aura_chat reaches process_request (aura_routes.py:232-239); lines 79-95:
\* the user message is appended and the workflow chosen.
StartRequest(t) ==
    /\ pc[t] = "idle"
    /\ request[t] # NoRequest
    /\ running = None
    /\ running' = t
    /\ conversation_history' =
         Append(conversation_history, Message("user", request[t].prompt, None, t))
    /\ workflow' = [workflow EXCEPT ![t] = DetermineWorkflow(request[t].prompt)]
    /\ agent_responses' = [agent_responses EXCEPT ![t] = <<>>]
    /\ iteration' = [iteration EXCEPT ![t] = 0]
    /\ pc' = [pc EXCEPT ![t] = "pass"]
    /\ UNCHANGED <<total_iterations, status, request, idx, passes, synthCalls, invoked, context, aura_response, metrics>>
    /\ UNCHANGED agentVars
    /\ UNCHANGED wsVars
    /\ UNCHANGED regVars

\* Lines 97-98: the for loop starts pass `iteration`, or is exhausted.
BeginPass(t) ==
    /\ pc[t] = "pass"
    /\ CanRun(t)
    /\ running' = t
    /\ IF InRange(iteration[t], request[t].max_iterations)
       THEN /\ total_iterations' = total_iterations + 1
            /\ passes' = [passes EXCEPT ![t] = @ + 1]
            /\ invoked' = [invoked EXCEPT ![t] = <<>>]
            /\ idx' = [idx EXCEPT ![t] = 1]
            /\ pc' = [pc EXCEPT ![t] = "agents"]
       ELSE /\ pc' = [pc EXCEPT ![t] = "synth"]
            /\ UNCHANGED <<total_iterations, passes, invoked, idx>>
    /\ UNCHANGED <<conversation_history, status, request, workflow, agent_responses,
                   iteration, synthCalls, context, aura_response, metrics>>
    /\ UNCHANGED agentVars
    /\ UNCHANGED wsVars
    /\ UNCHANGED regVars

\* Lines 101-103: an agent of the workflow that is not enabled is skipped.
SkipAgent(t) ==
    /\ pc[t] = "agents"
    /\ CanRun(t)
    /\ idx[t] <= Len(workflow[t])
    /\ CurrentAgent(t) \notin request[t].agents_enabled
    /\ running' = t
    /\ idx' = [idx EXCEPT ![t] = @ + 1]
    /\ UNCHANGED <<conversation_history, total_iterations, status, pc, request, workflow,
                   agent_responses, iteration, passes, synthCalls, invoked, context, aura_response, metrics>>
    /\ UNCHANGED agentVars
    /\ UNCHANGED wsVars
    /\ UNCHANGED regVars

\* An invocation that does not look at the enabled set.
InvokeAgent_ignoresEnabled(t) ==
    /\ pc[t] = "agents"
    /\ CanRun(t)
    /\ idx[t] <= Len(workflow[t])
    /\ ProcessBegins(CurrentAgent(t))
    /\ synthCalls' = [synthCalls EXCEPT
                        ![t] = IF CurrentAgent(t) = SYNTHESIZER THEN @ + 1 ELSE @]
    /\ invoked' = [invoked EXCEPT ![t] = Append(@, CurrentAgent(t))]
    /\ context' = [context EXCEPT ![t] = PrepareContext(request[t], agent_responses[t])]
    /\ UNCHANGED aura_response
    /\ running' = HolderAtAwait(t)
    /\ pc' = [pc EXCEPT ![t] = "awaiting"]
    /\ UNCHANGED <<conversation_history, total_iterations, request, workflow,
                   agent_responses, iteration, idx, passes, metrics>>
    /\ UNCHANGED wsVars
    /\ UNCHANGED regVars

\* Lines 105-116 and the head of process (engineer_agent.py:75 and alike):
\* the agent turns Working and awaits the completion call.
InvokeAgent(t) ==
    /\ pc[t] = "agents"
    /\ CanRun(t)
    /\ idx[t] <= Len(workflow[t])
    /\ CurrentAgent(t) \in request[t].agents_enabled
    /\ ProcessBegins(CurrentAgent(t))
    /\ synthCalls' = [synthCalls EXCEPT
                        ![t] = IF CurrentAgent(t) = SYNTHESIZER THEN @ + 1 ELSE @]
    /\ invoked' = [invoked EXCEPT ![t] = Append(@, CurrentAgent(t))]
    /\ context' = [context EXCEPT ![t] = PrepareContext(request[t], agent_responses[t])]
    /\ UNCHANGED aura_response
    /\ running' = HolderAtAwait(t)
    /\ pc' = [pc EXCEPT ![t] = "awaiting"]
    /\ UNCHANGED <<conversation_history, total_iterations, request, workflow,
                   agent_responses, iteration, idx, passes, metrics>>
    /\ UNCHANGED wsVars
    /\ UNCHANGED regVars

\* Mutant of LogAgentMessage: the agent message is put at the head of the log.
LogAgentMessage_atHead(log, resp, t) ==
    <<Message("agent", resp.response, resp.agent_type, t)>> \o log

\* The log after the agent message of a response is appended (lines 121-128).
LogAgentMessage(log, resp, t) ==
    Append(log, Message("agent", resp.response, resp.agent_type, t))

\* The completion call returned `text`: process ends Completed (engineer_agent.py:
\* 123-150 and alike), lines 118-128 collect the response and log its message.
AgentReturns(t, text) ==
    /\ pc[t] = "awaiting"
    /\ CanRun(t)
    /\ running' = t
    /\ LET a == CurrentAgent(t)
           resp == AgentResponse(a, text, Confidence(a, text))
       IN /\ ProcessCompletes(a, Confidence(a, text))
          /\ agent_responses' = [agent_responses EXCEPT ![t] = Append(@, resp)]
          /\ conversation_history' = LogAgentMessage(conversation_history, resp, t)
    /\ idx' = [idx EXCEPT ![t] = @ + 1]
    /\ pc' = [pc EXCEPT ![t] = "agents"]
    /\ UNCHANGED <<total_iterations, request, workflow, iteration, passes, synthCalls, invoked, context, aura_response,
                   metrics>>
    /\ UNCHANGED wsVars
    /\ UNCHANGED regVars

\* A failure that rolls back: the responses collected so far are dropped.
AgentFails_rollsBack(t) ==
    /\ pc[t] = "awaiting"
    /\ CanRun(t)
    /\ running' = t
    /\ ProcessErrs(CurrentAgent(t))
    /\ agent_responses' = [agent_responses EXCEPT ![t] = <<>>]
    /\ idx' = [idx EXCEPT ![t] = @ + 1]
    /\ pc' = [pc EXCEPT ![t] = "agents"]
    /\ UNCHANGED <<conversation_history, total_iterations, request, workflow,
                   iteration, passes, synthCalls, invoked, context, aura_response, metrics>>
    /\ UNCHANGED wsVars
    /\ UNCHANGED regVars

\* A failure that ends the pass: the agents after the failed one are left out.
AgentFails_abortsPass(t) ==
    /\ pc[t] = "awaiting"
    /\ CanRun(t)
    /\ running' = t
    /\ ProcessErrs(CurrentAgent(t))
    /\ idx' = [idx EXCEPT ![t] = Len(workflow[t]) + 1]
    /\ pc' = [pc EXCEPT ![t] = "agents"]
    /\ UNCHANGED <<conversation_history, total_iterations, request, workflow,
                   agent_responses, iteration, passes, synthCalls, invoked, context, aura_response, metrics>>
    /\ UNCHANGED wsVars
    /\ UNCHANGED regVars

\* Mutant of AgentFails: the loop has no except clause, the error leaves
\* process_request.
AgentFails_uncaught(t) ==
    /\ pc[t] = "awaiting"
    /\ CanRun(t)
    /\ running' = t
    /\ ProcessErrs(CurrentAgent(t))
    /\ pc' = [pc EXCEPT ![t] = "raised"]
    /\ UNCHANGED <<conversation_history, total_iterations, request, workflow,
                   agent_responses, iteration, idx, passes, synthCalls, invoked, context, aura_response, metrics>>
    /\ UNCHANGED wsVars
    /\ UNCHANGED regVars

\* The completion call failed: process ends Error and raises
\* (engineer_agent.py:152-155); lines 130-132 catch it and go on.
AgentFails(t) ==
    /\ pc[t] = "awaiting"
    /\ CanRun(t)
    /\ running' = t
    /\ ProcessErrs(CurrentAgent(t))
    /\ idx' = [idx EXCEPT ![t] = @ + 1]
    /\ pc' = [pc EXCEPT ![t] = "agents"]
    /\ UNCHANGED <<conversation_history, total_iterations, request, workflow,
                   agent_responses, iteration, passes, synthCalls, invoked, context, aura_response, metrics>>
    /\ UNCHANGED wsVars
    /\ UNCHANGED regVars

\* Lines 134-136: the pass is over; the stopping policy decides.
EndPass(t) ==
    /\ pc[t] = "agents"
    /\ CanRun(t)
    /\ idx[t] > Len(workflow[t])
    /\ running' = t
    /\ IF ShouldContinue(agent_responses[t], iteration[t], request[t].max_iterations)
       THEN /\ iteration' = [iteration EXCEPT ![t] = @ + 1]
            /\ pc' = [pc EXCEPT ![t] = "pass"]
       ELSE /\ pc' = [pc EXCEPT ![t] = "synth"]
            /\ UNCHANGED iteration
    /\ UNCHANGED <<conversation_history, total_iterations, status, request, workflow,
                   agent_responses, idx, passes, synthCalls, invoked, context, aura_response, metrics>>
    /\ UNCHANGED agentVars
    /\ UNCHANGED wsVars
    /\ UNCHANGED regVars

\* A Synthesizer step that the enabled set filters too: without the
\* Synthesizer enabled the call ends with nothing to return.
InvokeSynthesizer_ifEnabled(t) ==
    /\ pc[t] = "synth"
    /\ CanRun(t)
    /\ IF SYNTHESIZER \in request[t].agents_enabled
       THEN /\ ProcessBegins(SYNTHESIZER)
            /\ synthCalls' = [synthCalls EXCEPT ![t] = @ + 1]
            /\ context' = [context EXCEPT
                             ![t] = SynthesisContext(request[t], agent_responses[t])]
            /\ running' = HolderAtAwait(t)
            /\ pc' = [pc EXCEPT ![t] = "synth_awaiting"]
       ELSE /\ pc' = [pc EXCEPT ![t] = "raised"]
            /\ running' = t
            /\ UNCHANGED <<status, agentVars, synthCalls, context>>
    /\ UNCHANGED <<invoked, aura_response>>
    /\ UNCHANGED <<conversation_history, total_iterations, request, workflow,
                   agent_responses, iteration, idx, passes, metrics>>
    /\ UNCHANGED wsVars
    /\ UNCHANGED regVars

\* Lines 138-157 and synthesizer_agent.py:73: the Synthesizer turns Working
\* and awaits the completion call.
InvokeSynthesizer(t) ==
    /\ pc[t] = "synth"
    /\ CanRun(t)
    /\ ProcessBegins(SYNTHESIZER)
    /\ synthCalls' = [synthCalls EXCEPT ![t] = @ + 1]
    /\ context' = [context EXCEPT
                     ![t] = SynthesisContext(request[t], agent_responses[t])]
    /\ UNCHANGED <<invoked, aura_response>>
    /\ running' = HolderAtAwait(t)
    /\ pc' = [pc EXCEPT ![t] = "synth_awaiting"]
    /\ UNCHANGED <<conversation_history, total_iterations, request, workflow,
                   agent_responses, iteration, idx, passes, metrics>>
    /\ UNCHANGED wsVars
    /\ UNCHANGED regVars

\* How a call of _get_quantum_metrics goes: the job ran ("ok"), the service
\* has no backend (line 277), or something in the try block raised (the
\* import, the service, the transpiler, the job, the metric functions).
MetricsCalls == {"ok", "no_backends", "raises"}

\* Lines 161-163: the call is made only for a request with quantum_enhanced.
QuantumOutcomes(req) == IF req.quantum_enhanced THEN MetricsCalls ELSE {"not_called"}

\* A failure that keeps the name of the backend it had chosen.
GetQuantumMetrics_keepsBackend(call) ==
    CASE call = "ok" -> [consciousness_metrics |-> "metrics",
                         quantum_backend_used |-> "backend"]
      [] call = "no_backends" -> NoMetrics
      [] call = "raises" -> [consciousness_metrics |-> None,
                             quantum_backend_used |-> "backend"]

\* _get_quantum_metrics (lines 263-321): `metrics, backend.name` (line 317),
\* `None, None` without backends (line 277) and from the except clause
\* (lines 319-321).
GetQuantumMetrics(call) ==
    CASE call = "ok" -> [consciousness_metrics |-> "metrics",
                         quantum_backend_used |-> "backend"]
      [] call = "no_backends" -> NoMetrics
      [] call = "raises" -> NoMetrics

\* An AuraResponse whose final_response is the text of the first response.
BuildResponse_firstText(final_response, responses, iterations, qm) ==
    [ session_id |-> session_id,
      final_response |-> responses[1].response,
      agent_responses |-> responses,
      total_iterations |-> iterations,
      consciousness_metrics |-> qm.consciousness_metrics,
      quantum_backend_used |-> qm.quantum_backend_used ]

\* The AuraResponse of lines 168-178, built from the locals.
BuildResponse(final_response, responses, iterations, qm) ==
    [ session_id |-> session_id,
      final_response |-> final_response.response,
      agent_responses |-> responses,
      total_iterations |-> iterations,
      consciousness_metrics |-> qm.consciousness_metrics,
      quantum_backend_used |-> qm.quantum_backend_used ]

\* The Synthesizer returned `text` (synthesizer_agent.py:131-161); lines
\* 159-192: its response is collected, the metrics fetched, the AuraResponse
\* built, the assistant message appended and the AuraResponse returned.
SynthesizerReturns(t, text, qm) ==
    /\ pc[t] = "synth_awaiting"
    /\ CanRun(t)
    /\ qm \in QuantumOutcomes(request[t])
    /\ ProcessCompletes(SYNTHESIZER, SynthesisQuality(Len(agent_responses[t])))
    /\ LET final_response ==
               AgentResponse(SYNTHESIZER, text, SynthesisQuality(Len(agent_responses[t])))
           responses == Append(agent_responses[t], final_response)
           quantum == IF qm = "not_called" THEN NoMetrics ELSE GetQuantumMetrics(qm)
       IN /\ agent_responses' = [agent_responses EXCEPT ![t] = responses]
          /\ metrics' = [metrics EXCEPT ![t] = quantum]
          /\ aura_response' =
               [aura_response EXCEPT
                  ![t] = BuildResponse(final_response, responses, total_iterations,
                                       quantum)]
          /\ conversation_history' =
               Append(conversation_history,
                      Message("assistant", final_response.response, None, t))
    /\ running' = t
    /\ pc' = [pc EXCEPT ![t] = "returned"]
    /\ UNCHANGED <<total_iterations, request, workflow, iteration, idx, passes, synthCalls,
                   invoked, context>>
    /\ UNCHANGED wsVars
    /\ UNCHANGED regVars

\* A failing Synthesizer after which process_request takes back the agent
\* messages of the call and its passes.
SynthesizerFails_rollsBack(t) ==
    /\ pc[t] = "synth_awaiting"
    /\ CanRun(t)
    /\ ProcessErrs(SYNTHESIZER)
    /\ running' = t
    /\ pc' = [pc EXCEPT ![t] = "raised"]
    /\ conversation_history' =
         SelectSeq(conversation_history, LAMBDA m : m.src # t \/ m.role # "agent")
    /\ total_iterations' = total_iterations - passes[t]
    /\ UNCHANGED <<request, workflow,
                   agent_responses, iteration, idx, passes, synthCalls, invoked, context, aura_response, metrics>>
    /\ UNCHANGED wsVars
    /\ UNCHANGED regVars

\* The Synthesizer failed (synthesizer_agent.py:163-166): nothing around line
\* 153 catches it, process_request raises.
SynthesizerFails(t) ==
    /\ pc[t] = "synth_awaiting"
    /\ CanRun(t)
    /\ ProcessErrs(SYNTHESIZER)
    /\ running' = t
    /\ pc' = [pc EXCEPT ![t] = "raised"]
    /\ UNCHANGED <<conversation_history, total_iterations, request, workflow,
                   agent_responses, iteration, idx, passes, synthCalls, invoked, context, aura_response, metrics>>
    /\ UNCHANGED wsVars
    /\ UNCHANGED regVars

\* The locals of a call that is over.
ClearFrame(t) ==
    /\ workflow' = [workflow EXCEPT ![t] = <<>>]
    /\ agent_responses' = [agent_responses EXCEPT ![t] = <<>>]
    /\ iteration' = [iteration EXCEPT ![t] = 0]
    /\ idx' = [idx EXCEPT ![t] = 0]
    /\ passes' = [passes EXCEPT ![t] = 0]
    /\ synthCalls' = [synthCalls EXCEPT ![t] = 0]
    /\ metrics' = [metrics EXCEPT ![t] = NoMetrics]
    /\ invoked' = [invoked EXCEPT ![t] = <<>>]
    /\ context' = [context EXCEPT ![t] = NoContext]
    /\ aura_response' = [aura_response EXCEPT ![t] = NoResponse]

\* What the tail of aura_chat leaves alone while the coroutine goes on.
TailFrame ==
    /\ UNCHANGED <<conversation_history, total_iterations, status, request, workflow,
                   agent_responses, iteration, idx, passes, synthCalls, invoked, context, aura_response, metrics>>
    /\ UNCHANGED agentVars
    /\ UNCHANGED wsVars
    /\ UNCHANGED regVars

\* aura_routes.py:241-257: both save_message calls return
\* (supabase_client.py:122-153 has no except clause: the insert returns or raises).
SaveMessages(t) ==
    /\ pc[t] = "returned"
    /\ CanRun(t)
    /\ running' = t
    /\ pc' = [pc EXCEPT ![t] = "saved"]
    /\ TailFrame

\* One of the save_message calls raised: the blanket except clause
\* (aura_routes.py:279-280) answers HTTP 500; the coroutine ends.
SaveMessagesFail(t) ==
    /\ pc[t] = "returned"
    /\ CanRun(t)
    /\ running' = None
    /\ pc' = [pc EXCEPT ![t] = "failed"]
    /\ ClearFrame(t)
    /\ UNCHANGED <<conversation_history, total_iterations, status, request>>
    /\ UNCHANGED agentVars
    /\ UNCHANGED wsVars
    /\ UNCHANGED regVars

\* aura_routes.py:259-275: log_usage returned and aura_chat returns the
\* response; the coroutine ends.
Respond(t) ==
    /\ pc[t] = "saved"
    /\ CanRun(t)
    /\ running' = None
    /\ pc' = [pc EXCEPT ![t] = "done"]
    /\ ClearFrame(t)
    /\ UNCHANGED <<conversation_history, total_iterations, status, request>>
    /\ UNCHANGED agentVars
    /\ UNCHANGED wsVars
    /\ UNCHANGED regVars

\* log_usage raised (supabase_client.py:243-274 has no except clause, nor have
\* aura_routes.py:259-269): the blanket except clause (aura_routes.py:279-280)
\* answers HTTP 500 in place of the response; the coroutine ends.
LogUsageFails(t) ==
    /\ pc[t] = "saved"
    /\ CanRun(t)
    /\ running' = None
    /\ pc' = [pc EXCEPT ![t] = "failed"]
    /\ ClearFrame(t)
    /\ UNCHANGED <<conversation_history, total_iterations, status, request>>
    /\ UNCHANGED agentVars
    /\ UNCHANGED wsVars
    /\ UNCHANGED regVars

\* aura_routes.py:279-280: aura_chat turns the exception of process_request
\* into an HTTP 500; the coroutine ends.
RespondError(t) ==
    /\ pc[t] = "raised"
    /\ CanRun(t)
    /\ running' = None
    /\ pc' = [pc EXCEPT ![t] = "failed"]
    /\ ClearFrame(t)
    /\ UNCHANGED <<conversation_history, total_iterations, status, request>>
    /\ UNCHANGED agentVars
    /\ UNCHANGED wsVars
    /\ UNCHANGED regVars

NextOrch ==
    \E t \in Tasks :
        \/ StartRequest(t)
        \/ BeginPass(t)
        \/ SkipAgent(t)
        \/ InvokeAgent(t)
        \/ \E text \in Texts : AgentReturns(t, text)
        \/ AgentFails(t)
        \/ EndPass(t)
        \/ InvokeSynthesizer(t)
        \/ \E text \in SynthesisTexts, qm \in MetricsCalls \cup {"not_called"} :
              SynthesizerReturns(t, text, qm)
        \/ SynthesizerFails(t)
        \/ SaveMessages(t)
        \/ SaveMessagesFail(t)
        \/ Respond(t)
        \/ LogUsageFails(t)
        \/ RespondError(t)

-----------------------------------------------------------------------------
(* The agents' methods called directly, and reset_session *)

\* Most entries an agent is given between two resets.
MaxAppended == 13

\* Most traces an agent collects between two resets.
MaxTraces == 4

\* Numbers of agent outputs given to the Synthesizer's process.
OutputCounts == {0, 1, 6}

\* Agent b is as __init__ or reset left it and has returned no response.
Untouched(b) ==
    /\ status[b] = "idle"
    /\ appended[b] = 0
    /\ long_term[b] = {}
    /\ working_context[b] = None
    /\ traces[b] = <<>>
    /\ response_trace[b] = NoTrace
    /\ w2_optimization[b] = 0

\* The methods of one agent at a time are called: the others are untouched.
OnlyDirect(a) == \A b \in AgentType \ {a} : Untouched(b)

\* Lengths of the lists given to update_memory.
ListLengths == {0, 1, 2, 11}

\* Scores given to update_w2_optimization, in hundredths.
Scores == {-500, -1, 50, 101, 500}

\* update_memory called on agent a.
CallUpdateMemory(a, n, key, ctx) ==
    /\ OnlyDirect(a)
    /\ appended[a] + n <= MaxAppended
    /\ UpdateMemory(a, n, key, ctx)
    /\ UNCHANGED <<conversation_history, total_iterations, status, running, pc, request,
                   workflow, agent_responses, iteration, idx, passes, synthCalls, invoked, context, aura_response, metrics,
                   traces, response_trace, w2_optimization, weight, gamma_resistance>>
    /\ UNCHANGED <<wsVars, regVars>>

\* update_w2_optimization called on agent a.
CallUpdateW2Optimization(a, score) ==
    /\ OnlyDirect(a)
    /\ UpdateW2Optimization(a, score)
    /\ UNCHANGED <<conversation_history, total_iterations, status, running, pc, request,
                   workflow, agent_responses, iteration, idx, passes, synthCalls, invoked, context, aura_response, metrics,
                   memVars, traces, response_trace, weight, gamma_resistance>>
    /\ UNCHANGED <<wsVars, regVars>>

\* What process leaves alone.
ProcessFrame ==
    /\ UNCHANGED <<conversation_history, total_iterations, running, pc, request,
                   workflow, agent_responses, iteration, idx, passes, synthCalls, invoked, context, aura_response, metrics>>
    /\ UNCHANGED <<wsVars, regVars>>

\* process called on agent a, up to its completion call.
CallProcess(a) ==
    /\ OnlyDirect(a)
    /\ appended[a] + 1 <= MaxAppended
    /\ Len(traces[a]) + 3 <= MaxTraces
    /\ ProcessBegins(a)
    /\ ProcessFrame

\* The completion call of that process returned `text`; `outputs` is the
\* number of agent outputs the Synthesizer was given.
CallProcessReturns(a, text, outputs) ==
    /\ OnlyDirect(a)
    /\ status[a] = "working"
    /\ ProcessCompletes(a, IF a = SYNTHESIZER THEN SynthesisQuality(outputs)
                           ELSE Confidence(a, text))
    /\ ProcessFrame

\* The completion call of that process raised.
CallProcessRaises(a) ==
    /\ OnlyDirect(a)
    /\ status[a] = "working"
    /\ ProcessErrs(a)
    /\ ProcessFrame

\* The completion call of that process returned and process raised at `point`.
CallProcessRaisesAfterCall(a, point) ==
    /\ OnlyDirect(a)
    /\ status[a] = "working"
    /\ ProcessErrsAfterCall(a, point)
    /\ ProcessFrame

\* reset called on agent a.
CallReset(a) ==
    /\ OnlyDirect(a)
    /\ ResetAgents({a})
    /\ ProcessFrame

\* reset called on agent a between requests.
ResetOne(a) ==
    /\ running = None
    /\ ResetAgents({a})
    /\ ProcessFrame

\* reset_session (orchestrator.py:389-394), called between requests.
ResetSession ==
    /\ running = None
    /\ conversation_history' = <<>>
    /\ total_iterations' = 0
    /\ ResetAgents(AgentType)
    /\ UNCHANGED <<running, pc, request, workflow, agent_responses, iteration, idx,
                   passes, synthCalls, invoked, context, aura_response, metrics>>
    /\ UNCHANGED <<wsVars, regVars>>

NextAgent ==
    \E a \in AgentType :
        \/ \E n \in ListLengths, key \in {None, "k1"}, ctx \in {None, "task"} :
              CallUpdateMemory(a, n, key, ctx)
        \/ \E score \in Scores : CallUpdateW2Optimization(a, score)
        \/ CallProcess(a)
        \/ \E text \in Texts, outputs \in OutputCounts : CallProcessReturns(a, text, outputs)
        \/ CallProcessRaises(a)
        \/ \E point \in {"score", "metrics"} : CallProcessRaisesAfterCall(a, point)
        \/ CallReset(a)

NextSession ==
    \/ NextOrch
    \/ \E a \in AgentType : ResetOne(a)
    \/ ResetSession

-----------------------------------------------------------------------------
(* Connection manager and websocket endpoint: src/api/aura_websocket.py *)

Sessions == {"s1"}

\* The websocket connections; each is opened with ?session_id=s1.
Conns == {"c1", "c2", "c3"}

SessionOf(c) == "s1"

\* A caller of the typed event helpers that is no connection handler.
Publisher == "pub"

Callers == Conns \cup {Publisher}

\* The keys of each outbound frame, by its "type".
FrameFields(kind) ==
    CASE kind = "connected" -> {"type", "session_id", "message", "timestamp"}
      [] kind = "pong" -> {"type", "timestamp"}
      [] kind = "status" -> {"type", "session_id", "connections", "timestamp"}
      [] kind = "agent_update" ->
           {"type", "session_id", "agent_id", "agent_type", "status", "message",
            "metrics", "timestamp"}
      [] kind = "lattice_update" -> {"type", "session_id", "lattice", "timestamp"}
      [] kind = "response_chunk" ->
           {"type", "session_id", "agent_id", "agent_type", "content", "is_final",
            "timestamp"}
      [] kind = "error" -> {"type", "session_id", "error", "details", "timestamp"}
      [] kind = "quantum_metrics" ->
           {"type", "session_id", "metrics", "backend", "timestamp"}

Frame(kind) == [ type |-> kind, fields |-> FrameFields(kind) ]

NoFrame == [ type |-> None, fields |-> {} ]

\* The typed event helpers that wrap broadcast_to_session (lines 69-141).
HelperKinds ==
    {"agent_update", "lattice_update", "response_chunk", "error", "quantum_metrics"}

\* Inbound "type" tags; "unsubscribe_lattice" has no branch in the dispatch.
InboundTypes == {"ping", "subscribe_lattice", "get_status", "unsubscribe_lattice"}

Users == {"u1", "u2"}

\* What the handler gets back at lines 184 and 191: the user of the token or
\* None, the owner of the session row or None (no row), and whether one of
\* the statements in the try raises.  What the handler never got is None.
AuthInputs ==
    { a \in [ user : {"u1", None}, owner : Users \cup {None}, raises : BOOLEAN ] :
        /\ a.raises => a.user = None
        /\ a.user = None => a.owner = None }

\* The handler has not reached line 184 yet.
NoAuth == [ user |-> "unchecked", owner |-> None, raises |-> FALSE ]

\* The check without the comparison of line 192: any existing session passes.
AuthOutcome_anyOwner(a) ==
    IF a.raises THEN "error"
    ELSE IF a.user = None THEN "unauthenticated"
    ELSE IF a.owner = None THEN "unauthorized"
    ELSE "ok"

\* Lines 181-199: close code 1011 on an exception, 1008 without a user and
\* 1008 without a session of that user.
AuthOutcome(a) ==
    IF a.raises THEN "error"
    ELSE IF a.user = None THEN "unauthenticated"
    ELSE IF a.owner = None \/ a.owner # a.user THEN "unauthorized"
    ELSE "ok"

\* self.active_connections.get(session_id, set())
Registered(conns, session) == IF session \in DOMAIN conns THEN conns[session] ELSE {}

\* connect, lines 32-35
Register(conns, c, session) ==
    [s \in DOMAIN conns \cup {session} |->
        IF s = session THEN Registered(conns, session) \cup {c} ELSE conns[s]]

\* disconnect without the clean-up of lines 42-44: the emptied set stays.
Disconnect_keepsEmpty(conns, c, session) ==
    IF session \in DOMAIN conns
    THEN [conns EXCEPT ![session] = @ \ {c}]
    ELSE conns

\* disconnect, lines 39-44
Disconnect(conns, c, session) ==
    IF session \in DOMAIN conns
    THEN IF conns[session] \ {c} = {}
         THEN [s \in DOMAIN conns \ {session} |-> conns[s]]
         ELSE [conns EXCEPT ![session] = @ \ {c}]
    ELSE conns

\* list(s), line 59: the elements of a set in some order.
Orders(S) ==
    { order \in [1..Cardinality(S) -> S] :
        \A i, j \in 1..Cardinality(S) : order[i] = order[j] => i = j }

\* The connections of the snapshot.
Snapshot == { connections[i] : i \in 1..Len(connections) }

\* The connections of the snapshot the broadcast has not sent to yet.
Todo == Snapshot \ (bdelivered \cup bfailed)

\* The connection the loop of line 61 is at.
Current == connections[Cardinality(bdelivered \cup bfailed) + 1]

InitWS ==
    /\ active_connections = <<>>
    /\ hpc = [c \in Conns |-> "start"]
    /\ out = [k \in Callers |-> NoFrame]
    /\ bcaller = None
    /\ bstate = "idle"
    /\ connections = <<>>
    /\ bdelivered = {}
    /\ bfailed = {}
    /\ bremoved = {}
    /\ stalled = {}
    /\ auth = [c \in Conns |-> NoAuth]
    /\ ignored = None

\* broadcast_to_session, lines 55-59: caller k starts to broadcast a frame.
\* Without an entry for the session it returns at once.  (The model follows
\* one broadcast_to_session call at a time.)
StartBroadcast(k, frame, session) ==
    /\ bcaller = None
    /\ bcaller' = k
    /\ out' = [out EXCEPT ![k] = frame]
    /\ \E order \in Orders(Registered(active_connections, session)) :
          connections' = order
    /\ bstate' = IF session \in DOMAIN active_connections THEN "sending" ELSE "done"
    /\ bdelivered' = {}
    /\ bfailed' = {}
    /\ bremoved' = {}

\* The caller's broadcast is over: its locals are gone.
EndBroadcast(k) ==
    /\ bcaller' = None
    /\ out' = [out EXCEPT ![k] = NoFrame]
    /\ bstate' = "idle"
    /\ connections' = <<>>
    /\ bdelivered' = {}
    /\ bfailed' = {}
    /\ bremoved' = {}

\* Lines 181-199: the token or the session check fails; the socket is closed
\* and never registered.
Reject(c, a) ==
    /\ hpc[c] = "start"
    /\ AuthOutcome(a) # "ok"
    /\ auth' = [auth EXCEPT ![c] = a]
    /\ UNCHANGED ignored
    /\ hpc' = [hpc EXCEPT ![c] = "closed"]
    /\ UNCHANGED <<active_connections, out, bVars, stalled>>
    /\ UNCHANGED orchVars
    /\ UNCHANGED regVars

\* Lines 181-210: the checks pass, connect accepts and registers the socket,
\* and the handler awaits the send of the "connected" frame.
Connect(c, a) ==
    /\ hpc[c] = "start"
    /\ AuthOutcome(a) = "ok"
    /\ auth' = [auth EXCEPT ![c] = a]
    /\ UNCHANGED ignored
    /\ active_connections' = Register(active_connections, c, SessionOf(c))
    /\ out' = [out EXCEPT ![c] = Frame("connected")]
    /\ hpc' = [hpc EXCEPT ![c] = "personal"]
    /\ UNCHANGED <<bVars, stalled>>
    /\ UNCHANGED orchVars
    /\ UNCHANGED regVars

\* send_personal_message, lines 46-51: the send returns or raises (the error
\* is printed); the handler waits for the next inbound message.
PersonalSendEnds(c) ==
    /\ hpc[c] = "personal"
    /\ c \notin stalled
    /\ out' = [out EXCEPT ![c] = NoFrame]
    /\ hpc' = [hpc EXCEPT ![c] = "receiving"]
    /\ UNCHANGED <<active_connections, bVars, stalled>>
    /\ UNCHANGED <<auth, ignored>>
    /\ UNCHANGED orchVars
    /\ UNCHANGED regVars

\* A dispatch that answers a type it does not know with an error frame.
Receive_answersUnknown(c, type, has_orchestrator) ==
    /\ hpc[c] = "receiving"
    /\ CASE type = "ping" ->
              /\ out' = [out EXCEPT ![c] = Frame("pong")]
              /\ hpc' = [hpc EXCEPT ![c] = "personal"]
              /\ ignored' = None
              /\ UNCHANGED bVars
         [] type = "get_status" ->
              /\ out' = [out EXCEPT ![c] = Frame("status")]
              /\ hpc' = [hpc EXCEPT ![c] = "personal"]
              /\ ignored' = None
              /\ UNCHANGED bVars
         [] type = "subscribe_lattice" /\ has_orchestrator ->
              \* send_lattice_update, lines 91-99
              /\ StartBroadcast(c, Frame("lattice_update"), SessionOf(c))
              /\ hpc' = [hpc EXCEPT ![c] = "broadcast"]
              /\ ignored' = None
         [] OTHER ->
              /\ out' = [out EXCEPT ![c] = Frame("error")]
              /\ hpc' = [hpc EXCEPT ![c] = "personal"]
              /\ ignored' = c
              /\ UNCHANGED bVars
    /\ UNCHANGED <<active_connections, stalled>>
    /\ UNCHANGED auth
    /\ UNCHANGED orchVars
    /\ UNCHANGED regVars

\* Lines 215-241: an inbound message is dispatched by its type;
\* has_orchestrator: `session_id in _orchestrators` (line 229).
Receive(c, type, has_orchestrator) ==
    /\ hpc[c] = "receiving"
    /\ CASE type = "ping" ->
              /\ out' = [out EXCEPT ![c] = Frame("pong")]
              /\ hpc' = [hpc EXCEPT ![c] = "personal"]
              /\ ignored' = None
              /\ UNCHANGED bVars
         [] type = "get_status" ->
              /\ out' = [out EXCEPT ![c] = Frame("status")]
              /\ hpc' = [hpc EXCEPT ![c] = "personal"]
              /\ ignored' = None
              /\ UNCHANGED bVars
         [] type = "subscribe_lattice" /\ has_orchestrator ->
              \* send_lattice_update, lines 91-99
              /\ StartBroadcast(c, Frame("lattice_update"), SessionOf(c))
              /\ hpc' = [hpc EXCEPT ![c] = "broadcast"]
              /\ ignored' = None
         [] OTHER ->
              \* no branch: the loop reads the next message
              /\ ignored' = c
              /\ UNCHANGED <<out, hpc, bVars>>
    /\ UNCHANGED <<active_connections, stalled>>
    /\ UNCHANGED auth
    /\ UNCHANGED orchVars
    /\ UNCHANGED regVars

\* Lines 243-244: receive_json raises WebSocketDisconnect.
ReceiveDisconnect(c) ==
    /\ hpc[c] = "receiving"
    /\ active_connections' = Disconnect(active_connections, c, SessionOf(c))
    /\ hpc' = [hpc EXCEPT ![c] = "closed"]
    /\ UNCHANGED <<out, bVars, stalled>>
    /\ UNCHANGED <<auth, ignored>>
    /\ UNCHANGED orchVars
    /\ UNCHANGED regVars

\* Lines 245-247: the receive loop raises another exception; send_error
\* (lines 121-130) broadcasts an "error" frame to the session.
ReceiveError(c) ==
    /\ hpc[c] = "receiving"
    /\ StartBroadcast(c, Frame("error"), SessionOf(c))
    /\ hpc' = [hpc EXCEPT ![c] = "broadcast"]
    /\ UNCHANGED <<active_connections, stalled>>
    /\ UNCHANGED <<auth, ignored>>
    /\ UNCHANGED orchVars
    /\ UNCHANGED regVars

\* A caller outside the handlers uses one of the typed event helpers.
Publish(kind, session) ==
    /\ StartBroadcast(Publisher, Frame(kind), session)
    /\ UNCHANGED <<active_connections, hpc, stalled>>
    /\ UNCHANGED <<auth, ignored>>
    /\ UNCHANGED orchVars
    /\ UNCHANGED regVars

\* Can send_json on connection c return normally?  Not once its handler is over.
CanDeliver(c) == hpc[c] # "closed"

\* The state of the loop of lines 61-67 after the send to `target`.
AfterSend(target) == IF Todo = {target} THEN "done" ELSE "sending"

\* Lines 61-63: send_json to a connection of the snapshot returns.
BroadcastSendOk(target) ==
    /\ bstate = "sending"
    /\ target = Current
    /\ target \notin stalled
    /\ CanDeliver(target)
    /\ bdelivered' = bdelivered \cup {target}
    /\ bstate' = AfterSend(target)
    /\ UNCHANGED <<active_connections, hpc, out, bcaller, connections, bfailed, bremoved, stalled>>
    /\ UNCHANGED <<auth, ignored>>
    /\ UNCHANGED orchVars
    /\ UNCHANGED regVars

\* The send without the try of lines 62-67: the exception of send_json leaves
\* broadcast_to_session.
BroadcastSendFails_propagates(target) ==
    /\ bstate = "sending"
    /\ target = Current
    /\ target \notin stalled
    /\ bfailed' = bfailed \cup {target}
    /\ bstate' = "raised"
    /\ UNCHANGED <<active_connections, hpc, out, bcaller, connections, bdelivered,
                   bremoved, stalled>>
    /\ UNCHANGED <<auth, ignored>>
    /\ UNCHANGED orchVars
    /\ UNCHANGED regVars

\* Lines 64-67: send_json raises; the error is printed and the connection
\* removed, and the loop goes on.
BroadcastSendFails(target) ==
    /\ bstate = "sending"
    /\ target = Current
    /\ target \notin stalled
    /\ active_connections' = Disconnect(active_connections, target, SessionOf(target))
    /\ bfailed' = bfailed \cup {target}
    /\ bremoved' = bremoved \cup ( Registered(active_connections, SessionOf(target))
                                   \ Registered(active_connections', SessionOf(target)) )
    /\ bstate' = AfterSend(target)
    /\ UNCHANGED <<hpc, out, bcaller, connections, bdelivered, stalled>>
    /\ UNCHANGED <<auth, ignored>>
    /\ UNCHANGED orchVars
    /\ UNCHANGED regVars

\* broadcast_to_session returned to a handler: after a lattice update the
\* handler waits for the next message (line 232); after send_error it
\* deregisters itself and ends (line 248).
HandlerBroadcastReturns(c) ==
    /\ hpc[c] = "broadcast"
    /\ bcaller = c
    /\ bstate = "done"
    /\ IF out[c].type = "error"
       THEN /\ active_connections' = Disconnect(active_connections, c, SessionOf(c))
            /\ hpc' = [hpc EXCEPT ![c] = "closed"]
       ELSE /\ hpc' = [hpc EXCEPT ![c] = "receiving"]
            /\ UNCHANGED active_connections
    /\ EndBroadcast(c)
    /\ UNCHANGED stalled
    /\ UNCHANGED <<auth, ignored>>
    /\ UNCHANGED orchVars
    /\ UNCHANGED regVars

\* broadcast_to_session returned to the outside caller.
PublisherBroadcastReturns ==
    /\ bcaller = Publisher
    /\ bstate = "done"
    /\ EndBroadcast(Publisher)
    /\ UNCHANGED <<active_connections, hpc, stalled>>
    /\ UNCHANGED <<auth, ignored>>
    /\ UNCHANGED orchVars
    /\ UNCHANGED regVars

\* The peer of a registered connection stops reading: sends to it no longer
\* complete.
Stall(c) ==
    /\ stalled = {}
    /\ hpc[c] \notin {"start", "closed"}
    /\ stalled' = {c}
    /\ UNCHANGED <<active_connections, hpc, out, bVars>>
    /\ UNCHANGED <<auth, ignored>>
    /\ UNCHANGED orchVars
    /\ UNCHANGED regVars

NextWS ==
    \/ \E c \in Conns :
          \/ \E a \in AuthInputs : Reject(c, a)
          \/ \E a \in AuthInputs : Connect(c, a)
          \/ PersonalSendEnds(c)
          \/ \E type \in InboundTypes, has_orchestrator \in BOOLEAN :
                Receive(c, type, has_orchestrator)
          \/ ReceiveDisconnect(c)
          \/ ReceiveError(c)
          \/ HandlerBroadcastReturns(c)
    \/ \E kind \in HelperKinds, session \in Sessions : Publish(kind, session)
    \/ \E target \in Conns :
          \/ BroadcastSendOk(target)
          \/ BroadcastSendFails(target)
    \/ PublisherBroadcastReturns

-----------------------------------------------------------------------------
(* Session endpoints and the orchestrator registry: src/api/aura_routes.py *)

\* Ids the database gives to new sessions.
SessionIds == {"s1", "s2", "s3"}

\* get_lattice_state has not been called.
NoLattice == [ nodes |-> <<>> ]

NoRow == [ user_id |-> None, status |-> None ]

\* A row of aura_sessions (supabase_client.py:86-91).
Row(user, st) == [ user_id |-> user, status |-> st ]

InitRegistry ==
    /\ orchestrators = {}
    /\ aura_sessions = [s \in SessionIds |-> NoRow]
    /\ lattice = NoLattice
    /\ rejected = None

\* Lines 132-136, 180-186, 221-225: the session exists and is the user's.
OwnsSession(s, user) == aura_sessions[s] # NoRow /\ aura_sessions[s].user_id = user

\* Lines 133-136, 182-185, 222-225: 404 without a row, 403 with the row of
\* another user, else no error.
SessionCheck(s, user) ==
    IF aura_sessions[s] = NoRow THEN "404"
    ELSE IF aura_sessions[s].user_id # user THEN "403"
    ELSE None

\* create_session, lines 78-112: a row with a new id is inserted and an
\* orchestrator registered for it.
CreateSession(s, user) ==
    /\ aura_sessions[s] = NoRow
    /\ aura_sessions' = [aura_sessions EXCEPT ![s] = Row(user, "active")]
    /\ orchestrators' = orchestrators \cup {s}
    /\ rejected' = None
    /\ UNCHANGED lattice
    /\ UNCHANGED <<orchVars, wsVars>>

\* end_session, lines 164-198: 404 or 403 unless the session is the user's;
\* else the row is marked ended and the orchestrator removed.
EndSession(s, user) ==
    /\ IF OwnsSession(s, user)
       THEN /\ aura_sessions' = [aura_sessions EXCEPT ![s].status = "ended"]
            /\ orchestrators' = orchestrators \ {s}
       ELSE UNCHANGED <<orchestrators, aura_sessions>>
    /\ rejected' = SessionCheck(s, user)
    /\ UNCHANGED lattice
    /\ UNCHANGED <<orchVars, wsVars>>

\* aura_chat that gets or makes the orchestrator before it checks the session.
Chat_registersFirst(s, user) ==
    /\ orchestrators' = orchestrators \cup {s}
    /\ rejected' = SessionCheck(s, user)
    /\ UNCHANGED <<aura_sessions, lattice>>
    /\ UNCHANGED <<orchVars, wsVars>>

\* aura_chat with a session_id, lines 219-236: 404 or 403 unless the session
\* is the user's; else its orchestrator is looked up, or made and registered.
\* Nothing after line 236 touches the registry.
Chat(s, user) ==
    /\ IF OwnsSession(s, user)
       THEN orchestrators' = orchestrators \cup {s}
       ELSE UNCHANGED orchestrators
    /\ rejected' = SessionCheck(s, user)
    /\ UNCHANGED <<aura_sessions, lattice>>
    /\ UNCHANGED <<orchVars, wsVars>>

\* aura_chat without a session_id, lines 226-236: a session is created first.
ChatNewSession(s, user) ==
    /\ aura_sessions[s] = NoRow
    /\ aura_sessions' = [aura_sessions EXCEPT ![s] = Row(user, "active")]
    /\ orchestrators' = orchestrators \cup {s}
    /\ rejected' = None
    /\ UNCHANGED lattice
    /\ UNCHANGED <<orchVars, wsVars>>

NextRegistry ==
    \E s \in SessionIds, user \in Users :
        \/ CreateSession(s, user)
        \/ EndSession(s, user)
        \/ Chat(s, user)
        \/ ChatNewSession(s, user)

-----------------------------------------------------------------------------
(* get_lattice_state: src/services/aura/orchestrator.py:323-359 *)

RECURSIVE SumOver(_, _)
\* sum(f[a] for a in S)
SumOver(f, S) ==
    IF S = {} THEN 0
    ELSE LET a == CHOOSE x \in S : TRUE IN f[a] + SumOver(f, S \ {a})

\* The sum left undivided.
Coherence_undivided(scores) ==
    [num |-> SumOver(scores, DOMAIN scores), den |-> 1]

\* orchestrator.py:349-350: sum(agent.vector.w2_optimization for agent in
\* self.agents.values()) / len(self.agents).  The quotient is kept as the
\* fraction num/den of hundredths.
Coherence(scores) ==
    [num |-> SumOver(scores, DOMAIN scores), den |-> Cardinality(DOMAIN scores)]

\* _get_agent_position (orchestrator.py:361-373), in hundredths.
Position(agent_type) ==
    CASE agent_type = ARCHITECT -> [x |-> 50, y |-> 0, z |-> 0]
      [] agent_type = ENGINEER -> [x |-> 0, y |-> 50, z |-> 0]
      [] agent_type = REVIEWER -> [x |-> 100, y |-> 50, z |-> 0]
      [] agent_type = DEBUGGER -> [x |-> 0, y |-> 100, z |-> 0]
      [] agent_type = RESEARCH -> [x |-> 100, y |-> 100, z |-> 0]
      [] agent_type = SYNTHESIZER -> [x |-> 50, y |-> 150, z |-> 0]

\* _get_agent_connections (orchestrator.py:375-387); an agent id is named by
\* its agent's type.
LatticeConnections(agent_type) ==
    CASE agent_type = ARCHITECT -> <<ENGINEER, RESEARCH, SYNTHESIZER>>
      [] agent_type = ENGINEER -> <<ARCHITECT, REVIEWER, DEBUGGER>>
      [] agent_type = REVIEWER -> <<ENGINEER, SYNTHESIZER>>
      [] agent_type = DEBUGGER -> <<ENGINEER, RESEARCH>>
      [] agent_type = RESEARCH -> <<ARCHITECT, DEBUGGER, SYNTHESIZER>>
      [] agent_type = SYNTHESIZER -> <<ARCHITECT, REVIEWER, RESEARCH>>

\* self.agents in insertion order (orchestrator.py:58-66).
AgentOrder == <<ARCHITECT, ENGINEER, REVIEWER, DEBUGGER, RESEARCH, SYNTHESIZER>>

\* The AgentNode of lines 335-343.
AgentNode(a) ==
    [ agent_type |-> a,
      status |-> status[a],
      vector |-> [ w2_optimization |-> w2_optimization[a], weight |-> weight[a],
                   gamma_resistance |-> gamma_resistance[a] ],
      position |-> Position(a),
      connections |-> LatticeConnections(a) ]

\* A view with nodes for the agents at work only.
GetLatticeState_busyOnly ==
    [nodes |-> [i \in 1..Len(SelectSeq(AgentOrder, LAMBDA a : status[a] # "idle")) |->
                   AgentNode(SelectSeq(AgentOrder, LAMBDA a : status[a] # "idle")[i])],
     active_agents |->
         Cardinality({a \in AgentType : status[a] \in {"active", "working"}}),
     total_interactions |-> total_iterations,
     lattice_coherence |-> Coherence(w2_optimization)]

\* The AgentLattice get_lattice_state returns in the current state.
GetLatticeState ==
    [nodes |-> [i \in 1..Len(AgentOrder) |-> AgentNode(AgentOrder[i])],
     active_agents |->
         Cardinality({a \in AgentType : status[a] \in {"active", "working"}}),
     total_interactions |-> total_iterations,
     lattice_coherence |-> Coherence(w2_optimization)]

\* get_lattice_state called on the orchestrator, at any point.
CallGetLatticeState ==
    /\ lattice' = GetLatticeState
    /\ UNCHANGED <<orchestrators, aura_sessions, rejected>>
    /\ UNCHANGED orchVars
    /\ UNCHANGED wsVars

NextLattice ==
    \/ NextOrch
    \/ CallGetLatticeState

-----------------------------------------------------------------------------
(* Specifications *)

\* No request is made.
NoRequests == { [t \in Tasks |-> NoRequest] }

\* One request on a fresh orchestrator.
OneRequest == { r \in [Tasks -> AuraRequest \cup {NoRequest}] :
                  r["t1"] # NoRequest /\ r["t2"] = NoRequest }

Init == InitOrch(OneRequest) /\ InitWS /\ InitRegistry

Next == NextOrch

Spec == Init /\ [][Next]_vars

\* Two overlapping aura_chat requests on the session's orchestrator.
TwoRequests ==
    [Tasks -> [ prompt : {{"review"}},
                agents_enabled : {{ENGINEER, SYNTHESIZER}},
                max_iterations : MinIterations..MaxIter,
                quantum_enhanced : {FALSE} ]]

InitConc == InitOrch(TwoRequests) /\ InitWS /\ InitRegistry

SpecConc == InitConc /\ [][Next]_vars

\* The connection manager with its connection handlers and callers.
InitConn == InitOrch(NoRequests) /\ InitWS /\ InitRegistry

NextConn == NextWS

SpecConn == InitConn /\ [][NextConn]_vars

\* The methods of one agent at a time, called in any order.
SpecAgent == InitConn /\ [][NextAgent]_vars

\* Two review requests with only the Engineer and the Synthesizer enabled.
SessionRequests ==
    [Tasks -> [ prompt : {{"review"}},
                agents_enabled : {{ENGINEER, SYNTHESIZER}},
                max_iterations : MinIterations..MaxIter,
                quantum_enhanced : {FALSE} ]]

InitSession == InitOrch(SessionRequests) /\ InitWS /\ InitRegistry

\* Two requests on the session's orchestrator, and reset and reset_session
\* between them.
SpecSession == InitSession /\ [][NextSession]_vars

\* Requests one after the other, and get_lattice_state called at any point
\* of them.
SpecLattice == InitSession /\ [][NextLattice]_vars

\* The session endpoints, called in any order by any user.
SpecRegistry == InitConn /\ [][NextRegistry]_vars

\* Clients that connect and stay silent, a caller that broadcasts, and one
\* peer that stops reading.
NextStall ==
    \/ \E c \in Conns :
          \/ \E a \in AuthInputs : Connect(c, a)
          \/ PersonalSendEnds(c)
          \/ Stall(c)
    \/ \E kind \in HelperKinds, session \in Sessions : Publish(kind, session)
    \/ \E target \in Conns :
          \/ BroadcastSendOk(target)
          \/ BroadcastSendFails(target)
    \/ PublisherBroadcastReturns

\* The send the broadcast awaits comes to an end.
SendCompletes == \E target \in Conns : BroadcastSendOk(target) \/ BroadcastSendFails(target)

\* The event loop resumes broadcast_to_session once the send it awaits has
\* completed; a send to a peer that reads completes.
SpecStall == InitConn /\ [][NextStall]_vars /\ WF_vars(SendCompletes)

-----------------------------------------------------------------------------
(* Properties of process_request *)

\* process_request has returned its response; aura_chat is in its tail.
ReturnedPcs == {"returned", "saved"}

AfterLoopPcs == {"synth", "synth_awaiting", "raised"} \cup ReturnedPcs

\* The messages call t appended, in log order.
Appended(t) == SelectSeq(conversation_history, LAMBDA m : m.src = t)

\* The responses call t collected in the loop (the Synthesizer's is the last
\* one of a call that returned).
LoopResponses(t) ==
    IF pc[t] \in ReturnedPcs
    THEN SubSeq(agent_responses[t], 1, Len(agent_responses[t]) - 1)
    ELSE agent_responses[t]

\* C1: every call of process_request invokes the Synthesizer exactly once and
\* only after the iteration loop has ended: no Synthesizer call has been made
\* while the call is in the loop or has just left it, and exactly one has been
\* made once the call awaits the Synthesizer, has returned or has raised.
C1_SynthesizerExactlyOnce ==
    \A t \in Tasks :
        /\ pc[t] \in LoopPcs \cup {"synth"} => synthCalls[t] = 0
        /\ pc[t] \in {"synth_awaiting", "raised"} \cup ReturnedPcs => synthCalls[t] = 1

\* C1 witness: a call with max_iterations = 1 in which every workflow agent
\* was invoked and failed has returned with the Synthesizer's response alone.
C1_Witness ==
    \E t \in Tasks :
        /\ pc[t] = "returned"
        /\ request[t].max_iterations = 1
        /\ \A i \in 1..Len(workflow[t]) : status[workflow[t][i]] = "error"
        /\ Len(agent_responses[t]) = 1
        /\ synthCalls[t] = 1

\* C2: the number of passes a call has begun never exceeds max_iterations,
\* and a call that has left the loop has made at least one pass.
C2_PassesWithinBound ==
    \A t \in Tasks :
        /\ passes[t] <= request[t].max_iterations
        /\ pc[t] \in AfterLoopPcs => passes[t] >= 1

\* C2 witness: a call returned after max_iterations > 1 passes in which an
\* agent failed.
C2_Witness ==
    \E t \in Tasks :
        /\ pc[t] = "returned"
        /\ passes[t] = request[t].max_iterations
        /\ passes[t] > 1
        /\ \E i \in 1..Len(workflow[t]) : status[workflow[t][i]] = "error"

\* C3 as stated: when the loop has ended with a last response of confidence
\* 0.95, fewer than max_iterations passes were made.
C3_StopsBeforeMaxIterations ==
    \A t \in Tasks :
        ( /\ pc[t] = "synth"
          /\ agent_responses[t] # <<>>
          /\ Last(agent_responses[t]).confidence = 95 )
        => passes[t] < request[t].max_iterations

\* C3 amended: the loop starts no further pass when the last response
\* collected so far has confidence 0.95: a call about to start a pass after
\* its first has no response yet or a last response of another confidence.
C3_NoPassAfterHighConfidence ==
    \A t \in Tasks :
        (pc[t] = "pass" /\ iteration[t] > 0)
        => \/ agent_responses[t] = <<>>
           \/ Last(agent_responses[t]).confidence # 95

\* C3 witness: the loop ended on a last response of confidence 0.95 with
\* passes left.
C3_Witness ==
    \E t \in Tasks :
        /\ pc[t] = "synth"
        /\ agent_responses[t] # <<>>
        /\ Last(agent_responses[t]).confidence = 95
        /\ passes[t] < request[t].max_iterations

\* C4: the messages a call has appended are, in log order, its user message,
\* then the agent messages of the responses it collected in the loop, in
\* collection order, then (once it has returned, and only then) the assistant
\* message as the last one.
C4_LogOrder ==
    \A t \in Tasks :
        pc[t] \notin {"idle", "done", "failed"} =>
            Appended(t) =
                <<Message("user", request[t].prompt, None, t)>>
                \o [i \in 1..Len(LoopResponses(t)) |->
                        Message("agent", LoopResponses(t)[i].response,
                                LoopResponses(t)[i].agent_type, t)]
                \o (IF pc[t] \in ReturnedPcs
                    THEN <<Message("assistant", Last(agent_responses[t]).response,
                                   None, t)>>
                    ELSE <<>>)

\* C4 witness: a call returned after two passes with at least two agent
\* messages and a failed agent.
C4_Witness ==
    \E t \in Tasks :
        /\ pc[t] = "returned"
        /\ passes[t] = 2
        /\ Len(Appended(t)) >= 4
        /\ \E i \in 1..Len(workflow[t]) : status[workflow[t][i]] = "error"

\* A call is inside an agent's process.
InCall(t) == pc[t] \in {"awaiting", "synth_awaiting"}

AgentInCall(t) == IF pc[t] = "awaiting" THEN CurrentAgent(t) ELSE SYNTHESIZER

\* C5: two overlapping calls on one orchestrator do not interleave: the
\* messages of each call are contiguous in the log, and no agent is inside
\* process for two calls at once.
C5_NoInterleaving ==
    /\ \A i \in 1..Len(conversation_history) - 1 :
          conversation_history[i].src # conversation_history[i + 1].src
          => \A k \in (i + 1)..Len(conversation_history) :
                conversation_history[k].src # conversation_history[i].src
    /\ \A t1, t2 \in Tasks :
          (t1 # t2 /\ InCall(t1) /\ InCall(t2)) => AgentInCall(t1) # AgentInCall(t2)

\* C5 witness: while one request was pending the other ran, and both have
\* now put agent messages in the log.
C5_Witness ==
    \E t1, t2 \in Tasks :
        /\ t1 # t2
        /\ pc[t1] = "done"
        /\ pc[t2] = "returned"
        /\ \E i, j \in 1..Len(conversation_history) :
              /\ \E text \in Texts :
                    conversation_history[i] = Message("agent", text, ENGINEER, t1)
              /\ \E text \in Texts :
                    conversation_history[j] = Message("agent", text, ENGINEER, t2)

C16_WorkflowByPriority ==
    \A t \in Tasks :
        pc[t] \in LoopPcs \cup AfterLoopPcs =>
            workflow[t] =
                CASE "debugging" \in request[t].prompt -> <<DEBUGGER, ENGINEER, REVIEWER>>
                  [] "debugging" \notin request[t].prompt /\ "review" \in request[t].prompt ->
                       <<REVIEWER, ENGINEER>>
                  [] request[t].prompt = {"research"} -> <<RESEARCH, ARCHITECT>>
                  [] request[t].prompt = {} -> <<ARCHITECT, ENGINEER, REVIEWER>>

\* A task with keywords of all three categories runs the debugging workflow.
C16_Witness ==
    \E t \in Tasks :
        /\ request[t].prompt = {"debugging", "review", "research"}
        /\ pc[t] = "returned"
        /\ workflow[t] = <<DEBUGGER, ENGINEER, REVIEWER>>

\* C17: the confidence the Synthesizer gives with n agent outputs is below
\* 1.0 and at least the confidence it gives with any smaller number of them.
C17_SynthesizerConfidenceMonotone ==
    \A t \in Tasks :
        pc[t] = "returned" =>
            LET n == Len(LoopResponses(t))
                confidence == Last(agent_responses[t]).confidence
            IN /\ confidence < 100
               /\ \A k \in 0..n : SynthesisQuality(k) <= confidence

\* C18: an agent's status changes only to Working (when process starts,
\* from any status), from Working to Completed (process returns a response
\* to the caller) or from Working to Error (the caller gets no response but
\* the exception); it is never Active and never goes back to Idle.
C18_AgentStateMachine ==
    [][ /\ \A a \in AgentType :
             /\ status'[a] # "active"
             /\ status'[a] # status[a] =>
                   \/ status'[a] = "working"
                   \/ /\ status[a] = "working"
                      /\ status'[a] = "completed"
                      /\ \E t \in Tasks :
                            /\ agent_responses'[t] # agent_responses[t]
                            /\ Last(agent_responses'[t]).agent_type = a
                   \/ /\ status[a] = "working"
                      /\ status'[a] = "error"
                      /\ agent_responses' = agent_responses
                      /\ \E t \in Tasks : pc[t] \in {"awaiting", "synth_awaiting"}
                                            /\ pc'[t] \in {"agents", "raised"}
        /\ \A t \in Tasks :
             (pc'[t] # pc[t] /\ pc'[t] \in {"awaiting", "synth_awaiting"}) =>
                 status'[IF pc'[t] = "awaiting" THEN workflow[t][idx[t]] ELSE SYNTHESIZER]
                     = "working"
      ]_vars

\* An agent that failed in the first pass is Working again in the second,
\* next to a Completed agent.
C18_Witness ==
    \E a, b \in AgentType :
        /\ status[a] = "working"
        /\ Len(traces[a]) = 4
        /\ status[b] = "completed"

C20_IterationCounter ==
    [][ /\ (\E t \in Tasks : passes'[t] = passes[t] + 1)
             <=> total_iterations' = total_iterations + 1
        /\ total_iterations' \in {total_iterations, total_iterations + 1}
             \/ (ResetSession /\ total_iterations' = 0)
      ]_vars

\* The second call is in its loop and the counter still holds the passes of
\* the first.
C20_Witness ==
    \E t, u \in Tasks :
        /\ pc[u] \in {"done", "failed"}
        /\ passes[t] > 0
        /\ total_iterations > passes[t]

\* C21: the lattice coherence get_lattice_state returns is the arithmetic
\* mean of the six agents' current optimization scores, and so lies between
\* 0 and 1 (0 and 100 hundredths).
C21_CoherenceIsMean ==
    LET c == GetLatticeState.lattice_coherence
        total == w2_optimization[ARCHITECT] + w2_optimization[ENGINEER]
                 + w2_optimization[REVIEWER] + w2_optimization[DEBUGGER]
                 + w2_optimization[RESEARCH] + w2_optimization[SYNTHESIZER]
    IN  /\ c.den > 0
        /\ 6 * c.num = c.den * total
        /\ 0 <= c.num
        /\ c.num <= 100 * c.den

\* Agents with different scores, one of them still 0, are averaged.
C21_Witness ==
    /\ \E a, b \in AgentType :
          /\ w2_optimization[a] > 0
          /\ w2_optimization[b] > w2_optimization[a]
    /\ \E a \in AgentType : w2_optimization[a] = 0
    /\ GetLatticeState.lattice_coherence.num > 100

\* C22: a failure of the usage logging does not fail a chat request: when
\* log_usage fails after process_request produced the response, aura_chat
\* still returns that response.
C22_UsageFailureStillResponds ==
    [][\A t \in Tasks : LogUsageFails(t) => pc'[t] = "done"]_vars

\* C23: when a request asks for quantum enhancement and the metrics call
\* fails (no backend, or an error anywhere in it), process_request still
\* returns its response, with the metrics and the backend name absent; the
\* agent responses, the log and the iteration counter are what the
\* Synthesizer's return alone makes them, as for a request without quantum
\* enhancement.
C23_MetricsFailureTolerated ==
    [][\A t \in Tasks, call \in {"no_backends", "raises"} :
          (request[t].quantum_enhanced
             /\ \E text \in SynthesisTexts : SynthesizerReturns(t, text, call)) =>
              /\ pc'[t] = "returned"
              /\ metrics'[t].consciousness_metrics = None
              /\ metrics'[t].quantum_backend_used = None
              /\ aura_response'[t].consciousness_metrics = None
              /\ aura_response'[t].quantum_backend_used = None
              /\ \E text \in SynthesisTexts :
                    LET final == AgentResponse(SYNTHESIZER, text,
                                               SynthesisQuality(Len(agent_responses[t])))
                    IN /\ agent_responses'[t] = Append(agent_responses[t], final)
                       /\ aura_response'[t].agent_responses = agent_responses'[t]
                       /\ conversation_history' =
                            Append(conversation_history,
                                   Message("assistant", text, None, t))
              /\ total_iterations' = total_iterations
              /\ aura_response'[t].total_iterations = total_iterations]_vars

\* C23 witness: a call that asked for quantum enhancement has returned, with
\* responses of loop agents, without metrics and without a backend name.
C23_Witness ==
    \E t \in Tasks :
        /\ pc[t] = "returned"
        /\ request[t].quantum_enhanced
        /\ metrics[t] = NoMetrics
        /\ aura_response[t].consciousness_metrics = None
        /\ aura_response[t].quantum_backend_used = None
        /\ Len(agent_responses[t]) >= 2

\* Call t is at the end of a pass: every agent of the workflow has been
\* skipped, has returned or has failed.
AtPassEnd(t) == pc[t] = "agents" /\ idx[t] > Len(workflow[t])

\* C24: the stopping policy decides once, at the end of each pass, and never
\* between the agents of a pass: a call leaves the pass (for the next pass or
\* for the Synthesizer) only from the end of the pass, and the step it takes
\* there ends the loop if the pass was the last permitted one, otherwise
\* starts another pass if no response has been collected, otherwise ends the
\* loop if the latest response has confidence >= 0.9 and starts another pass
\* if it is below 0.9.
C24_StoppingPolicy ==
    [][\A t \in Tasks :
          /\ (pc[t] \in {"agents", "awaiting"} /\ pc'[t] \in {"pass", "synth"})
                => AtPassEnd(t)
          /\ (AtPassEnd(t) /\ pc'[t] # pc[t]) =>
                /\ pc'[t] =
                     IF passes[t] >= request[t].max_iterations THEN "synth"
                     ELSE IF Len(agent_responses[t]) = 0 THEN "pass"
                     ELSE IF Last(agent_responses[t]).confidence >= 90 THEN "synth"
                     ELSE "pass"
                /\ pc'[t] = "pass" => ~AtPassEnd(t)'
                /\ agent_responses'[t] = agent_responses[t]]_vars

\* C24 witness: a second pass runs because the latest response of the first
\* had a confidence below 0.9.
C24_Witness ==
    \E t \in Tasks :
        /\ pc[t] = "agents"
        /\ passes[t] = 2
        /\ idx[t] = 1
        /\ Len(agent_responses[t]) > 0
        /\ Last(agent_responses[t]).confidence < 90

\* C25: the failure of a workflow agent in the loop is skipped and aborts
\* nothing: the call stays in the same pass at the next agent of the workflow
\* (the end of the pass, where the stopping policy decides, if there is none),
\* and the failed invocation adds no response and no message to the log.
C25_FailureSkipped ==
    [][\A t \in Tasks :
          (pc[t] = "awaiting" /\ status'[CurrentAgent(t)] = "error") =>
              /\ pc'[t] = "agents"
              /\ idx'[t] = idx[t] + 1
              /\ workflow'[t] = workflow[t]
              /\ passes'[t] = passes[t]
              /\ iteration'[t] = iteration[t]
              /\ agent_responses'[t] = agent_responses[t]
              /\ conversation_history' = conversation_history]_vars

\* C25 witness: in a second pass, an agent is invoked after the agent before
\* it in the workflow has failed in that pass.
C25_Witness ==
    \E t \in Tasks :
        /\ pc[t] = "awaiting"
        /\ passes[t] = 2
        /\ idx[t] >= 2
        /\ status[workflow[t][idx[t] - 1]] = "error"
        /\ Len(agent_responses[t]) >= 1

\* The agents of call t's workflow that its request enables, in workflow order.
Due(t) == SelectSeq(workflow[t], LAMBDA a : a \in request[t].agents_enabled)

\* C26: in each pass the loop invokes exactly the agents of the workflow that
\* the request enables, in workflow order and one after another: the agents
\* invoked so far in a pass are always a prefix of that list, a pass ends only
\* when the whole list has been invoked, and an invocation starts only when
\* no earlier invocation is still running.
C26_PassInvokesEnabledInOrder ==
    /\ [](\A t \in Tasks :
             \E k \in 0..Len(Due(t)) : invoked[t] = SubSeq(Due(t), 1, k))
    /\ [][\A t \in Tasks :
             /\ (pc[t] \in {"agents", "awaiting"} /\ pc'[t] \in {"pass", "synth"})
                   => invoked[t] = Due(t)
             /\ (pc[t] \in LoopPcs /\ passes'[t] = passes[t] + 1) => invoked'[t] = <<>>
             /\ \A a \in AgentType :
                   (pc[t] \in LoopPcs /\ status[a] # "working" /\ status'[a] = "working")
                      => /\ invoked'[t] = Append(invoked[t], a)
                         /\ \A b \in AgentType : status[b] # "working"
             /\ (pc[t] \in LoopPcs /\ invoked'[t] # invoked[t]
                    /\ passes'[t] = passes[t])
                   => \E a \in AgentType : /\ invoked'[t] = Append(invoked[t], a)
                                           /\ status'[a] = "working"]_vars

\* C26 witness: a second pass has ended in which the first agent of the
\* workflow, not enabled, was left out and the enabled one invoked.
C26_Witness ==
    \E t \in Tasks :
        /\ AtPassEnd(t)
        /\ passes[t] = 2
        /\ Len(workflow[t]) = 3
        /\ invoked[t] = <<ENGINEER>>
        /\ status[ENGINEER] \in {"completed", "error"}

\* s is an initial part of r.
IsPrefix(s, r) == Len(s) <= Len(r) /\ SubSeq(r, 1, Len(s)) = s

\* C27: nothing is rolled back: while a call runs, whatever happens to other
\* agents, the responses it has collected stay where they are in its list
\* and the messages stay in the log, and the list it returns begins with
\* every response it had collected.
C27_NoRollback ==
    [][\A t \in Tasks :
          pc[t] \in LoopPcs \cup {"synth", "synth_awaiting"} =>
              /\ pc'[t] # "returned"
                    => IsPrefix(agent_responses[t], agent_responses'[t])
              /\ pc'[t] = "returned"
                    => IsPrefix(agent_responses[t], aura_response'[t].agent_responses)
              /\ IsPrefix(conversation_history, conversation_history')]_vars

\* C27 witness: a call returned the response an agent gave in the first pass
\* although that agent failed in the second pass; its message is in the log.
C27_Witness ==
    \E t \in Tasks, a \in AgentType \ {SYNTHESIZER} :
        /\ pc[t] = "returned"
        /\ passes[t] = 2
        /\ status[a] = "error"
        /\ \E i \in 1..Len(aura_response[t].agent_responses) :
              aura_response[t].agent_responses[i].agent_type = a
        /\ \E i \in 1..Len(conversation_history) :
              /\ conversation_history[i].role = "agent"
              /\ conversation_history[i].agent_type = a

\* The agent messages call t appended, in log order.
AgentMessages(t) == SelectSeq(Appended(t), LAMBDA m : m.role = "agent")

\* C28: the response process_request returns lists the agent responses in
\* the order they were produced (the order of their messages in the log),
\* then the Synthesizer's response as the last and the only one of the
\* Synthesizer; final_response is the text of that last response, and the
\* assistant message, the last the call appended, carries the same text.
C28_ResponseAssembly ==
    \A t \in Tasks :
        pc[t] = "returned" =>
            LET R == aura_response[t].agent_responses
            IN /\ Len(R) = Len(AgentMessages(t)) + 1
               /\ \A i \in 1..(Len(R) - 1) :
                     /\ R[i].agent_type # SYNTHESIZER
                     /\ R[i].agent_type = AgentMessages(t)[i].agent_type
                     /\ R[i].response = AgentMessages(t)[i].content
               /\ Last(R).agent_type = SYNTHESIZER
               /\ aura_response[t].final_response = Last(R).response
               /\ Last(Appended(t)).role = "assistant"
               /\ Last(Appended(t)).content = aura_response[t].final_response

\* C28 witness: a call returned a response with four loop responses of two
\* passes, whose texts differ from the Synthesizer's.
C28_Witness ==
    \E t \in Tasks :
        /\ pc[t] = "returned"
        /\ passes[t] = 2
        /\ Len(aura_response[t].agent_responses) = 5
        /\ aura_response[t].agent_responses[1].response = "weak"
        /\ aura_response[t].agent_responses[4].response = "strong"
        /\ aura_response[t].final_response = "synthesis"

\* C29: the context given to a loop agent holds the prompt of the request,
\* the session id and, as previous responses, the three responses the call
\* collected last (all of them when there are fewer), in collection order,
\* whichever pass they come from; the context given to the Synthesizer holds
\* every collected response.
C29_ContextOfLastThree ==
    \A t \in Tasks :
        /\ pc[t] = "awaiting" =>
              LET n == Len(agent_responses[t])
                  k == IF n < 3 THEN n ELSE 3
                  prev == context[t].previous_responses
              IN /\ context[t].original_prompt = request[t].prompt
                 /\ context[t].session_id = session_id
                 /\ Len(prev) = k
                 /\ \A i \in 1..k : prev[i] = agent_responses[t][n - k + i]
        /\ pc[t] = "synth_awaiting" =>
              /\ context[t].original_prompt = request[t].prompt
              /\ context[t].agent_responses = agent_responses[t]

\* C29 witness: in the second pass an agent is invoked when five responses
\* have been collected; it is given the last three, one of them of the first
\* pass.
C29_Witness ==
    \E t \in Tasks :
        /\ pc[t] = "awaiting"
        /\ passes[t] = 2
        /\ Len(invoked[t]) = 3
        /\ Len(agent_responses[t]) = 5
        /\ Len(context[t].previous_responses) = 3
        /\ context[t].previous_responses[1] = agent_responses[t][3]
        /\ context[t].previous_responses[1] # agent_responses[t][1]

\* Everything the model keeps of agent a.
AgentState(a) ==
    <<status[a], short_term[a], long_term[a], working_context[a], traces[a],
      w2_optimization[a], weight[a], gamma_resistance[a]>>

\* The agent whose process call t enters or leaves in a step, if any.
InProcessStep(t, a) ==
    \/ pc[t] = "agents" /\ pc'[t] = "awaiting" /\ a = CurrentAgent(t)
    \/ pc[t] = "awaiting" /\ pc'[t] # "awaiting" /\ a = CurrentAgent(t)
    \/ pc[t] = "synth" /\ pc'[t] = "synth_awaiting" /\ a = SYNTHESIZER
    \/ pc[t] = "synth_awaiting" /\ pc'[t] # "synth_awaiting" /\ a = SYNTHESIZER

\* C32: an agent's process changes that agent's status, memory, score and
\* traces only: in every step in which a process call starts, returns or
\* fails, every other agent is left as it was, the agent's weight and
\* resistance stay, and the log keeps its entries; it is as long as before
\* when the call starts or fails, and one message longer (the message the
\* caller appends for the response) when it returns.
C32_ProcessTouchesOwnStateOnly ==
    [][\A t \in Tasks, a \in AgentType :
          InProcessStep(t, a) =>
              /\ \A b \in AgentType \ {a} : AgentState(b)' = AgentState(b)
              /\ weight'[a] = weight[a]
              /\ gamma_resistance'[a] = gamma_resistance[a]
              /\ IsPrefix(conversation_history, conversation_history')
              /\ Len(conversation_history') =
                   Len(conversation_history)
                     + (IF status'[a] = "completed" THEN 1 ELSE 0)]_vars

\* C32 witness: an agent's process has failed while the log holds earlier
\* messages and two other agents hold results of their own.
C32_Witness ==
    \E t \in Tasks, a, b, c \in AgentType :
        /\ pc[t] = "agents"
        /\ idx[t] = 4
        /\ a = workflow[t][3] /\ b = workflow[t][1] /\ c = workflow[t][2]
        /\ status[a] = "error"
        /\ status[b] = "completed" /\ w2_optimization[b] > 0
        /\ status[c] = "completed" /\ w2_optimization[c] > 0
        /\ Len(conversation_history) = 3

\* C33: get_lattice_state is a pure projection. The lattice it returns has six
\* nodes, one per agent in the order of self.agents, each with the position and
\* the adjacency list of its agent's type and the agent's status and vector of
\* the moment of the call; the call changes no agent's status, vector, memory
\* or traces, not the conversation log and not the iteration counter, also
\* when a request is in flight.
C33_LatticeIsPureProjection ==
    [][CallGetLatticeState =>
          /\ Len(lattice'.nodes) = Cardinality(AgentType)
          /\ \A a \in AgentType : \E i \in 1..Len(lattice'.nodes) :
                lattice'.nodes[i].agent_type = a
          /\ \A i \in 1..Len(lattice'.nodes) :
                LET n == lattice'.nodes[i] IN
                /\ n.agent_type = AgentOrder[i]
                /\ n.position = Position(n.agent_type)
                /\ n.connections = LatticeConnections(n.agent_type)
                /\ n.status = status[n.agent_type]
                /\ n.vector.w2_optimization = w2_optimization[n.agent_type]
          /\ status' = status
          /\ <<w2_optimization, weight, gamma_resistance>>' =
                <<w2_optimization, weight, gamma_resistance>>
          /\ memVars' = memVars
          /\ traces' = traces
          /\ conversation_history' = conversation_history
          /\ total_iterations' = total_iterations
          /\ pc' = pc /\ running' = running]_vars

\* get_lattice_state was called while a request was in flight with an agent
\* at work.
C33_Witness ==
    /\ lattice # NoLattice
    /\ lattice.active_agents = 1
    /\ \E i \in 1..Len(lattice.nodes) : lattice.nodes[i].status = "working"
    /\ \E t \in Tasks : pc[t] = "awaiting"

\* C34: each agent's trace list is append-only. In every step the list of
\* every agent either keeps its traces as they were, in place and unchanged,
\* with new ones at most added at the end, or the step is a reset of the agent
\* (reset or reset_session) and the list is empty after it; so between resets
\* the length never decreases, through successful and failing process calls.
C34_TracesAppendOnly ==
    [][\A a \in AgentType :
          /\ \A i \in 1..Len(traces'[a]) : traces'[a][i] \in TraceActions
          /\ \/ /\ IsPrefix(traces[a], traces'[a])
                /\ Len(traces'[a]) >= Len(traces[a])
             \/ /\ ResetOne(a) \/ ResetSession
                /\ traces'[a] = <<>>]_vars

\* An agent failed in one pass and succeeded in the next: its list holds the
\* traces of both calls, the earlier ones first.
C34_Witness ==
    \E a \in AgentType :
        traces[a] = <<"start", "call_claude", "error", "start", "complete">>

WithStatus(s) == {a \in AgentType : status[a] = s}

\* C37: while the one process_request of a session runs, at most one agent is
\* Working and none is Active, so the active-agent count of a lattice taken in
\* any state is 0 or 1; when process_request has returned, no agent is
\* Working or Active: each is Idle, Completed or Error, and the Synthesizer
\* is Completed.
C37_AtMostOneWorking ==
    /\ Cardinality(WithStatus("working")) <= 1
    /\ WithStatus("active") = {}
    /\ GetLatticeState.active_agents \in {0, 1}
    /\ GetLatticeState.active_agents = Cardinality(WithStatus("working"))
    /\ \A t \in Tasks :
          pc[t] \in ReturnedPcs \cup {"done"} =>
              /\ \A a \in AgentType : status[a] \in {"idle", "completed", "error"}
              /\ status[SYNTHESIZER] = "completed"
              /\ GetLatticeState.active_agents = 0

\* An agent is Working in the loop while another is in Error and a third
\* Completed: the lattice counts one active agent.
C37_Witness ==
    /\ GetLatticeState.active_agents = 1
    /\ WithStatus("error") # {}
    /\ WithStatus("completed") # {}
    /\ \E t \in Tasks : pc[t] = "awaiting"

\* C38: a call whose loop has ended without a response of any loop agent
\* (every invoked agent failed in every pass, or no agent of the workflow is
\* enabled) has made exactly max_iterations passes; the Synthesizer is then
\* invoked once, with an empty list of agent responses, and the agent_responses
\* of the AuraResponse returned has exactly one element, the Synthesizer's.
C38_NoLoopResponse ==
    \A t \in Tasks :
        (pc[t] \in AfterLoopPcs /\ LoopResponses(t) = <<>>) =>
            /\ passes[t] = request[t].max_iterations
            /\ pc[t] # "synth" =>
                  /\ synthCalls[t] = 1
                  /\ context[t] = SynthesisContext(request[t], <<>>)
                  /\ context[t].agent_responses = <<>>
            /\ pc[t] \in ReturnedPcs =>
                  /\ Len(aura_response[t].agent_responses) = 1
                  /\ aura_response[t].agent_responses[1].agent_type = SYNTHESIZER
                  /\ aura_response[t].agent_responses = agent_responses[t]

\* Every agent invoked in two passes failed, and the call returned the
\* Synthesizer's response alone.
C38_Witness ==
    \E t \in Tasks :
        /\ pc[t] \in ReturnedPcs
        /\ request[t].max_iterations = 2
        /\ passes[t] = 2
        /\ Len(aura_response[t].agent_responses) = 1
        /\ \A i \in 1..Len(Due(t)) : status[Due(t)[i]] = "error"
        /\ Len(Due(t)) >= 2

\* C39: when the Synthesizer's process fails, process_request raises and takes
\* nothing back. The failing step leaves the log, the iteration counter and
\* the collected responses as they were and the Synthesizer in Error; a call
\* that has raised has its user message first in the log, one agent message
\* for each response it collected, no assistant message and no AuraResponse,
\* and the counter holds its passes; aura_chat's error answer changes neither
\* log nor counter.
C39_SynthesizerFailureKeepsState ==
    /\ [](\A t \in Tasks :
             pc[t] = "raised" =>
                 /\ status[SYNTHESIZER] = "error"
                 /\ Appended(t)[1].role = "user"
                 /\ Len(AgentMessages(t)) = Len(agent_responses[t])
                 /\ \A i \in 1..Len(Appended(t)) : Appended(t)[i].role # "assistant"
                 /\ Len(Appended(t)) = 1 + Len(agent_responses[t])
                 /\ total_iterations = passes[t]
                 /\ passes[t] >= 1
                 /\ aura_response[t] = NoResponse)
    /\ [][\A t \in Tasks :
             /\ (pc[t] = "synth_awaiting" /\ status'[SYNTHESIZER] = "error") =>
                   /\ pc'[t] = "raised"
                   /\ conversation_history' = conversation_history
                   /\ total_iterations' = total_iterations
                   /\ agent_responses' = agent_responses
             /\ (pc[t] = "raised" /\ pc'[t] # "raised") =>
                   /\ pc'[t] = "failed"
                   /\ conversation_history' = conversation_history
                   /\ total_iterations' = total_iterations
                   /\ status' = status]_vars

\* The Synthesizer failed after two passes in which agents answered: the
\* call has raised, and their messages and both passes are kept.
C39_Witness ==
    \E t \in Tasks :
        /\ pc[t] = "raised"
        /\ status[SYNTHESIZER] = "error"
        /\ total_iterations = 2
        /\ Len(AgentMessages(t)) >= 2

\* C40: the enabled set filters the loop agents only. Every agent invoked in
\* a pass is an enabled agent of the workflow and never the Synthesizer, and
\* every call that leaves the loop invokes the Synthesizer next, whether or
\* not the request enables it: a call past that point has made its one
\* Synthesizer call, and the response a call returns ends with the
\* Synthesizer's.
C40_SynthesizerNotFiltered ==
    /\ [](\A t \in Tasks :
             /\ \A i \in 1..Len(invoked[t]) :
                   /\ invoked[t][i] \in request[t].agents_enabled
                   /\ invoked[t][i] # SYNTHESIZER
             /\ pc[t] \in {"synth_awaiting", "raised"} \cup ReturnedPcs => synthCalls[t] = 1
             /\ pc[t] \in ReturnedPcs =>
                   Last(aura_response[t].agent_responses).agent_type = SYNTHESIZER)
    /\ [][\A t \in Tasks :
             (pc[t] = "synth" /\ pc'[t] # "synth") =>
                 /\ pc'[t] = "synth_awaiting"
                 /\ status'[SYNTHESIZER] = "working"
                 /\ synthCalls'[t] = synthCalls[t] + 1]_vars

\* A request without the Synthesizer in its enabled set, whose loop agents
\* answered, returned with the response of the Synthesizer.
C40_Witness ==
    \E t \in Tasks :
        /\ SYNTHESIZER \notin request[t].agents_enabled
        /\ pc[t] \in ReturnedPcs
        /\ Len(aura_response[t].agent_responses) >= 2
        /\ Last(aura_response[t].agent_responses).agent_type = SYNTHESIZER
        /\ status[SYNTHESIZER] = "completed"

-----------------------------------------------------------------------------
(* Properties of the connection manager *)

\* C7: a broadcast in which exactly one send fails delivers the frame to
\* every other connection of its snapshot, leaves the failed connection
\* unregistered, removes no other connection, and does not raise.
C7_OneFailedSend ==
    /\ bstate # "raised"
    /\ (bstate = "done" /\ Cardinality(bfailed) = 1) =>
          /\ bdelivered = Snapshot \ bfailed
          /\ bfailed \cap Registered(active_connections, "s1") = {}
          /\ bremoved \subseteq bfailed

\* A broadcast to three connections is over: one send failed and removed the
\* connection, the two others got the frame and are still registered.
C7_Witness ==
    /\ bstate = "done"
    /\ Len(connections) = 3
    /\ Cardinality(bfailed) = 1
    /\ bremoved = bfailed
    /\ Cardinality(bdelivered) = 2
    /\ bdelivered \subseteq Registered(active_connections, "s1")

\* C8: during a broadcast, while the peer of one connection has stopped
\* reading, every other connection of the snapshot is eventually sent the
\* frame.
C8_OthersEventuallySent ==
    \A c \in Conns :
        (bstate = "sending" /\ c \in Todo /\ stalled # {} /\ c \notin stalled)
            ~> (c \in bdelivered \cup bfailed)

\* C9: the frame a handler sends for an inbound subscribe_lattice goes to
\* the requesting connection only.
C9_LatticeUpdateToRequesterOnly ==
    \A c \in Conns :
        (hpc[c] = "broadcast" /\ out[c].type = "lattice_update") =>
            bdelivered \subseteq {c}

\* C10: every frame being sent carries type, session_id and timestamp.
C10_FramesCarryCommonFields ==
    \A k \in Callers :
        out[k] # NoFrame => {"type", "session_id", "timestamp"} \subseteq out[k].fields

\* C11: a registered connection passed the check (its token gave a user and
\* the session exists and is owned by that user), and a connection whose
\* check failed or raised is closed and in no session's set.
C11_RegisteredOnlyAfterCheck ==
    \A c \in Conns :
        LET passed == /\ auth[c] # NoAuth
                      /\ ~auth[c].raises
                      /\ auth[c].user # None
                      /\ auth[c].owner = auth[c].user
        IN /\ (\E s \in DOMAIN active_connections : c \in active_connections[s]) => passed
           /\ (auth[c] # NoAuth /\ ~passed) =>
                 /\ hpc[c] = "closed"
                 /\ \A s \in DOMAIN active_connections : c \notin active_connections[s]

\* One connection is registered after a passed check, one was closed because
\* the session belongs to another user, one because the check raised.
C11_Witness ==
    \E c1, c2, c3 \in Conns :
        /\ c1 \in Registered(active_connections, SessionOf(c1))
        /\ auth[c2] # NoAuth /\ ~auth[c2].raises
        /\ auth[c2].user # None /\ auth[c2].owner \notin {None, auth[c2].user}
        /\ hpc[c2] = "closed"
        /\ auth[c3] # NoAuth /\ auth[c3].raises
        /\ hpc[c3] = "closed"

\* C12: the error event a handler sends after its receive loop failed
\* reaches no other connection of the session and deregisters none of them.
C12_ErrorAffectsOnlyOwnConnection ==
    \A c \in Conns :
        (hpc[c] = "broadcast" /\ out[c].type = "error") =>
            /\ bdelivered \subseteq {c}
            /\ bremoved \subseteq {c}

\* A step in which disconnect(c, SessionOf(c)) is called: by c's handler after
\* WebSocketDisconnect or after send_error, or by a broadcast whose send to c
\* raised.
DisconnectCalled(c) ==
    \/ ReceiveDisconnect(c)
    \/ HandlerBroadcastReturns(c) /\ out[c].type = "error"
    \/ BroadcastSendFails(c)

\* C30: no session id ever maps to an empty set of connections, however
\* connect, disconnect and the sends of a broadcast interleave; a disconnect
\* that removes the last connection of a session drops the session's entry,
\* and a disconnect of a connection that is not registered (its session
\* known or not) changes nothing and lets its caller go on.
C30_NoEmptySessionEntry ==
    /\ [](\A s \in DOMAIN active_connections : active_connections[s] # {})
    /\ [][\A c \in Conns :
             DisconnectCalled(c) =>
                 LET s == SessionOf(c)
                     before == Registered(active_connections, s)
                 IN /\ before = {c} => s \notin DOMAIN active_connections'
                    /\ c \notin before => active_connections' = active_connections
                    /\ (c \in before /\ before # {c})
                          => /\ s \in DOMAIN active_connections'
                             /\ active_connections'[s] = before \ {c}
                    /\ bstate' # "raised"]_vars

\* C30 witness: a broadcast's send failed for a connection whose handler had
\* already removed it, the last of its session: disconnect was called for a
\* session without entry.
C30_Witness ==
    \E c \in Conns :
        /\ c \in bfailed
        /\ c \notin bremoved
        /\ hpc[c] = "closed"
        /\ DOMAIN active_connections = {}

-----------------------------------------------------------------------------
(* Properties of the orchestrator registry *)

\* C13: no orchestrator is registered for a session that end_session has
\* ended.
C13_NoOrchestratorAfterEnd ==
    \A s \in SessionIds : aura_sessions[s].status = "ended" => s \notin orchestrators

\* C36: aura_chat with the id of a session that does not exist fails with
\* 404, and with the id of another user's session with 403, before it gets or
\* makes an orchestrator and before it processes: the registry and the
\* session rows are as they were, and so are the log, the agents and the
\* iteration counter of every orchestrator and the position of every request.
C36_RejectedChatChangesNothing ==
    [][\A s \in SessionIds, user \in Users :
          (Chat(s, user) /\ ~OwnsSession(s, user)) =>
              /\ rejected' = IF aura_sessions[s] = NoRow THEN "404" ELSE "403"
              /\ orchestrators' = orchestrators
              /\ aura_sessions' = aura_sessions
              /\ orchVars' = orchVars
              /\ wsVars' = wsVars]_vars

\* A chat was rejected with 403 for a session whose orchestrator had been
\* removed, and none was made for it.
C36_Witness ==
    \E s \in SessionIds :
        /\ rejected = "403"
        /\ aura_sessions[s].status = "ended"
        /\ s \notin orchestrators
        /\ orchestrators # {}

-----------------------------------------------------------------------------
(* Properties of the agents *)

\* C14: short_term of every agent has at most 10 entries, and they are the
\* last 10 (or fewer) entries given since the last reset, oldest first.
C14_ShortTermLastTen ==
    \A a \in AgentType :
        LET n == IF appended[a] <= 10 THEN appended[a] ELSE 10
        IN /\ Len(short_term[a]) <= 10
           /\ short_term[a] = [i \in 1..n |-> appended[a] - n + i]

\* An agent was given more than 10 entries, by update_memory and by process,
\* and holds 10 of them.
C14_Witness ==
    \E a \in AgentType :
        /\ appended[a] >= 12
        /\ Len(short_term[a]) = 10
        /\ status[a] \in {"completed", "error"}

\* C15: optimization_score, weight and decoherence_resistance of every
\* agent lie in [0,1], and weight and decoherence_resistance keep the
\* values the agent was made with.
C15_VectorWithinUnitInterval ==
    \A a \in AgentType :
        /\ w2_optimization[a] \in 0..100
        /\ weight[a] \in 0..100
        /\ gamma_resistance[a] \in 0..100
        /\ weight[a] = 100
        /\ gamma_resistance[a] = 80

\* A score above 1 was given and 1 is stored: no score an agent derives
\* itself reaches 1 from a "weak" or "strong" text.
C15_Witness ==
    \E a \in AgentType : w2_optimization[a] = 100 /\ traces[a] # <<>>

=============================================================================
